---------------------------- MODULE Spec2Model ----------------------------
(***************************************************************************)
(* Dubbing pipeline (Rampage-films): state-machine model of the stages     *)
(*   S1  audio_preprocess.py    preprocess_for_transcription                *)
(*   S2  whisper_transcribe.py  transcribe_audio                            *)
(*   S3  smart_diarize.py       classify_gender, analyze_segments           *)
(*   S4  translate.py          translate_segments, translate_timed_segments*)
(*   S5  edge_tts_dub.py        generate_segment(s)_audio, generate_audio   *)
(*   S5  voice_selector.py      VoiceAssigner.get_voice_for_speaker         *)
(*   S6  segment_assembler.py   assemble_segments_with_timing               *)
(* All durations and times are integers in milliseconds.                   *)
(* Every stage has its own specification (SpecAsm, SpecTr, ...); Spec runs *)
(* one stage chosen in the initial state.                                  *)
(***************************************************************************)
EXTENDS Integers, Sequences, FiniteSets, TLC

VARIABLES
    \* ---- segment_assembler.py : assemble_segments_with_timing ----
    asm_pc,          \* "off" | "call" | "loop" | "tail" | "concat" | "done"
    HAS_RUBBERBAND,  \* module flag set by the import at line 14-22
    tts_segments,    \* argument; sorted by start once the call has entered
    total_duration,  \* argument
    asm_i,           \* loop index i of the for loop (1-based)
    current_time,    \* cursor
    segment_files,   \* pieces to concatenate: [kind, dur, seg]
    asm_result,      \* returned dict: [success, error]
    silence_failed,  \* history: some generate_silence call of this call returned False
    temp_dir,        \* <<>> or <<files>>: the directory of line 143 and the files in it
    \* ---- translate.py : translate_timed_segments / translate_segments ----
    tt_pc,           \* "off" | "call" | "batch" | "retry" | "req" | "ret" | "done"
    has_api_key,     \* environment: OPENAI_API_KEY / AI integration key is set
    tt_segments,     \* argument: list of [text, start, end]; text 0 is blank
    texts,           \* the non-blank texts, line 484
    batch_start,     \* loop variable of the batch loop
    all_translated,  \* translations collected so far
    failed_batches,  \* counter, line 492
    in_retry,        \* the running call is the retry of line 517, not the call of line 501
    ts_attempt,      \* loop variable of the retry loop in translate_segments
    ts_waits,        \* time.sleep calls made by the running translate_segments call
    ts_replies,      \* history: outcome of each request of that call, in order
    ts_ret,          \* value returned by the last translate_segments call
    call_log,        \* history: one entry [batch, ok] per finished translate_segments call
    tt_events,       \* history: first request of each call, each time.sleep of lines 516, 533
    batch_requests,  \* history: provider requests made so far for the current batch
    tt_result,       \* returned dict: [success, error, segments, partial_count]
    \* ---- voice_selector.py : VoiceAssigner ----
    va_pc,             \* "off" | "on": a VoiceAssigner object exists
    speaker_voice_map, \* self.speaker_voice_map: cache key -> voice name
    used_voices,       \* self.used_voices: lang_code -> set of voice names
    va_calls,          \* number of get_voice_for_speaker calls made
    va_last,           \* last call: its speaker_id, language and returned dict
    va_first,          \* history: (speaker_id, language) -> voice of the first call
    \* ---- edge_tts_dub.py : generate_audio ----
    ga_pc,             \* "off" | "idle" | "edge" | "gtts"
    GTTS_AVAILABLE,    \* module flag set by the import at lines 15-19
    EDGE_TTS_WORKING,  \* module global: "None" | "True" | "False"
    EDGE_TTS_CONSECUTIVE_FAILURES,  \* module global
    skip_edge_tts,     \* local of the running call
    ga_attempt,        \* loop variable of the running call
    ga_edge_reqs,      \* primary-provider requests made by the running call
    ga_waits,          \* asyncio.sleep calls made by the running call
    ga_history,        \* history: one entry per finished generate_audio call
    ga_job_starts,     \* history: the lengths of ga_history at which a later job began
    \* ---- edge_tts_dub.py : generate_segments_audio ----
    syn_pc,            \* "off" | "call" | "loop" | "done"
    syn_segments,      \* data["segments"] of the segments file
    syn_i,             \* loop index (1-based)
    results,           \* results list: [success, error, sync_quality]
    successful,        \* counter
    failed,            \* counter
    sync_stats,        \* [good, fair, poor]
    seg_result,        \* full dict returned by the last generate_segment_audio call
    syn_result         \* returned dict of generate_segments_audio

asmVars == <<asm_pc, HAS_RUBBERBAND, tts_segments, total_duration, asm_i,
             current_time, segment_files, asm_result, silence_failed,
             temp_dir>>

trVars == <<tt_pc, has_api_key, tt_segments, texts, batch_start, all_translated,
            failed_batches, in_retry, ts_attempt, ts_waits, ts_replies, ts_ret, call_log,
            tt_events, batch_requests, tt_result>>

vaVars == <<va_pc, speaker_voice_map, used_voices, va_calls, va_last, va_first>>

gaVars == <<ga_pc, GTTS_AVAILABLE, EDGE_TTS_WORKING, EDGE_TTS_CONSECUTIVE_FAILURES,
            skip_edge_tts, ga_attempt, ga_edge_reqs, ga_waits, ga_history,
            ga_job_starts>>

synVars == <<syn_pc, syn_segments, syn_i, results, successful, failed, sync_stats,
             seg_result, syn_result>>

-----------------------------------------------------------------------------
(* Generic helpers *)

Abs(x) == IF x < 0 THEN -x ELSE x

Max(a, b) == IF a >= b THEN a ELSE b

Min(a, b) == IF a <= b THEN a ELSE b

NoResult == [success |-> FALSE, error |-> "none"]

-----------------------------------------------------------------------------
(* segment_assembler.py *)

\* bounds of the assembler inputs
MaxAsmSegs == 2

Missing == -1    \* os.path.exists(audio_path) is false

AsmStarts == {0, 1000, 3000}
AsmLens == {1000, 2000}
AsmClips == {Missing, 1200, 6000}
AsmTotals == {5000, 60000}

AsmSegment == [start : AsmStarts, len : AsmLens, clip : AsmClips]

SegEnd(seg) == seg.start + seg.len

AsmInputs == UNION {[1..n -> AsmSegment] : n \in 0..MaxAsmSegs}

\* sorted(tts_segments, key=lambda x: x['start']) : stable
RECURSIVE InsertByStart(_, _)
InsertByStart(x, s) ==
    IF s = <<>> THEN <<x>>
    ELSE IF Head(s).start >= x.start THEN <<x>> \o s
    ELSE <<Head(s)>> \o InsertByStart(x, Tail(s))

RECURSIVE SortByStart(_)
SortByStart(s) ==
    IF s = <<>> THEN <<>> ELSE InsertByStart(Head(s), SortByStart(Tail(s)))

\* real length of the concatenation of a list of pieces
RECURSIVE SumDur(_)
SumDur(s) == IF s = <<>> THEN 0 ELSE Head(s).dur + SumDur(Tail(s))

\* abs(actual_duration - target_duration) > 0.3
SYNC_THRESHOLD_MS == 300

NeedsAdjust(actual, target) == Abs(actual - target) > SYNC_THRESHOLD_MS

\* adjust_segment_speed_ffmpeg: speed_factor = current/target clamped to
\* [0.5, 2.0]; atempo divides the duration by speed_factor.
\* conv is the return code of the ffmpeg run (TRUE = 0).
FfmpegStretch(current, target, conv) ==
    IF current <= 0 \/ target <= 0 THEN [ok |-> FALSE, dur |-> 0]
    ELSE IF ~conv THEN [ok |-> FALSE, dur |-> 0]
    ELSE IF 2 * current < target THEN [ok |-> TRUE, dur |-> 2 * current]
    ELSE IF current > 2 * target THEN [ok |-> TRUE, dur |-> current \div 2]
    ELSE [ok |-> TRUE, dur |-> target]

\* adjust_segment_speed_rubberband: stretch_ratio = target/current clamped to
\* [0.7, 1.5], applied only when it differs from 1 by more than 0.02.
\* raised: sf.read / pyrb / sf.write raised, the ffmpeg primitive is used.
RubberbandStretch(current, target, raised, conv) ==
    IF raised THEN FfmpegStretch(current, target, conv)
    ELSE IF current <= 0 \/ target <= 0 THEN [ok |-> FALSE, dur |-> 0]
    ELSE IF ~conv THEN [ok |-> FALSE, dur |-> 0]
    ELSE IF 10 * target < 7 * current
         THEN [ok |-> TRUE, dur |-> (7 * current) \div 10]
    ELSE IF 2 * target > 3 * current
         THEN [ok |-> TRUE, dur |-> (3 * current) \div 2]
    ELSE IF 100 * Abs(target - current) > 2 * current
         THEN [ok |-> TRUE, dur |-> target]
    ELSE [ok |-> TRUE, dur |-> current]

\* adjust_segment_speed
AdjustSegmentSpeed(has_rb, current, target, raised, conv) ==
    IF has_rb THEN RubberbandStretch(current, target, raised, conv)
    ELSE FfmpegStretch(current, target, conv)

\* the pieces one loop iteration appends for seg, with the cursor at t
\*   sil_ok : generate_silence succeeded, raised/conv : stretch outcome
GapPiece(seg, t, sil_ok) ==
    IF seg.start > t /\ sil_ok
    THEN <<[kind |-> "silence", dur |-> seg.start - t, seg |-> seg]>>
    ELSE <<>>

\* mutant: nothing is appended for a clip whose stretch failed
ClipPiece_DropOnStretchFailure(has_rb, seg, sil_ok, raised, conv) ==
    IF seg.clip # Missing
    THEN IF NeedsAdjust(seg.clip, seg.len)
         THEN LET r == AdjustSegmentSpeed(has_rb, seg.clip, seg.len, raised, conv)
              IN IF r.ok
                 THEN <<[kind |-> "adjusted", dur |-> r.dur, seg |-> seg]>>
                 ELSE <<>>
         ELSE <<[kind |-> "clip", dur |-> seg.clip, seg |-> seg]>>
    ELSE IF sil_ok
         THEN <<[kind |-> "gap", dur |-> seg.len, seg |-> seg]>>
         ELSE <<>>

ClipPiece(has_rb, seg, sil_ok, raised, conv) ==
    IF seg.clip # Missing
    THEN IF NeedsAdjust(seg.clip, seg.len)
         THEN LET r == AdjustSegmentSpeed(has_rb, seg.clip, seg.len, raised, conv)
              IN IF r.ok
                 THEN <<[kind |-> "adjusted", dur |-> r.dur, seg |-> seg]>>
                 ELSE <<[kind |-> "clip", dur |-> seg.clip, seg |-> seg]>>
         ELSE <<[kind |-> "clip", dur |-> seg.clip, seg |-> seg]>>
    ELSE IF sil_ok
         THEN <<[kind |-> "gap", dur |-> seg.len, seg |-> seg]>>
         ELSE <<>>

\* no temporary directory exists
NoTempDir == <<>>

\* the file of temp_dir that holds piece p: silence_i, adjusted_i, gap_i or
\* final_silence (lines 162, 172, 186, 192)
TempFile(p) == [name |-> p.kind, seg |-> p.seg]

\* a piece of segment_files that lies in temp_dir (line 220); an unadjusted
\* clip is the caller's audio_path
StartsWithTempDir(p) == p.kind # "clip"

\* the files created in temp_dir for a list of appended pieces
RECURSIVE TempFiles(_)
TempFiles(pieces) ==
    IF pieces = <<>> THEN <<>>
    ELSE (IF StartsWithTempDir(Head(pieces)) THEN <<TempFile(Head(pieces))>> ELSE <<>>)
           \o TempFiles(Tail(pieces))

\* concat.txt, line 200
CONCAT_LIST == [name |-> "concat.txt", seg |-> [start |-> 0, len |-> 0, clip |-> Missing]]

\* lines 219-229: remove the listed temporary files and concat.txt; os.rmdir
\* removes the directory only when nothing is left in it
CleanUp(files, listed) ==
    LET removed == {TempFile(listed[k]) : k \in {j \in 1..Len(listed) : StartsWithTempDir(listed[j])}}
                     \cup {CONCAT_LIST}
        left == SelectSeq(files, LAMBDA f : f \notin removed)
    IN IF left = <<>> THEN NoTempDir ELSE <<left>>

AsmIdle ==
    /\ asm_pc = "off"
    /\ HAS_RUBBERBAND = FALSE
    /\ tts_segments = <<>>
    /\ total_duration = 0
    /\ asm_i = 0
    /\ current_time = 0
    /\ segment_files = <<>>
    /\ asm_result = NoResult
    /\ silence_failed = FALSE
    /\ temp_dir = NoTempDir

\* a call of assemble_segments_with_timing(tts_segments, total_duration, ...)
\* with the segment list drawn from inputs
AsmInitWith(inputs) ==
    /\ asm_pc = "call"
    /\ HAS_RUBBERBAND \in BOOLEAN
    /\ tts_segments \in inputs
    /\ total_duration \in AsmTotals
    /\ asm_i = 0
    /\ current_time = 0
    /\ segment_files = <<>>
    /\ asm_result = NoResult
    /\ silence_failed = FALSE
    /\ temp_dir = NoTempDir

AsmInit == AsmInitWith(AsmInputs)

\* mutant: the empty-list check of line 146 is missing
AsmEnter_NoEmptyCheck ==
    /\ asm_pc = "call"
    /\ asm_pc' = "loop"
    /\ tts_segments' = SortByStart(tts_segments)
    /\ asm_i' = 1
    /\ temp_dir' = <<<<>>>>
    /\ UNCHANGED <<HAS_RUBBERBAND, total_duration, current_time, segment_files,
                   asm_result, silence_failed>>

\* lines 143-152: empty list check, sort, initialise the cursor
AsmEnter ==
    /\ asm_pc = "call"
    /\ IF tts_segments = <<>>
       THEN /\ asm_pc' = "done"
            /\ asm_result' = [success |-> FALSE, error |-> "No segments provided"]
            /\ UNCHANGED <<tts_segments, asm_i>>
       ELSE /\ asm_pc' = "loop"
            /\ tts_segments' = SortByStart(tts_segments)
            /\ asm_i' = 1
            /\ UNCHANGED asm_result
    /\ temp_dir' = <<<<>>>>
    /\ UNCHANGED <<HAS_RUBBERBAND, total_duration, current_time, segment_files,
                   silence_failed>>

\* lines 154-189: one iteration of the for loop
AsmLoopSegment ==
    /\ asm_pc = "loop"
    /\ asm_i <= Len(tts_segments)
    /\ \E gap_ok \in BOOLEAN, sil_ok \in BOOLEAN, raised \in BOOLEAN, conv \in BOOLEAN :
         LET seg == tts_segments[asm_i]
         IN /\ segment_files' = segment_files
                   \o GapPiece(seg, current_time, gap_ok)
                   \o ClipPiece(HAS_RUBBERBAND, seg, sil_ok, raised, conv)
            /\ silence_failed' = (\/ silence_failed
                                  \/ seg.start > current_time /\ ~gap_ok
                                  \/ seg.clip = Missing /\ ~sil_ok)
    /\ temp_dir' = <<temp_dir[1] \o TempFiles(SubSeq(segment_files', Len(segment_files) + 1,
                                                  Len(segment_files')))>>
    /\ current_time' = SegEnd(tts_segments[asm_i])
    /\ asm_i' = asm_i + 1
    /\ UNCHANGED <<asm_pc, HAS_RUBBERBAND, tts_segments, total_duration, asm_result>>

\* for loop exhausted
AsmLoopEnd ==
    /\ asm_pc = "loop"
    /\ asm_i > Len(tts_segments)
    /\ asm_pc' = "tail"
    /\ UNCHANGED <<HAS_RUBBERBAND, tts_segments, total_duration, asm_i,
                   current_time, segment_files, asm_result, silence_failed, temp_dir>>

\* lines 191-195: trailing silence
AsmTrailing ==
    /\ asm_pc = "tail"
    /\ \E sil_ok \in BOOLEAN :
         /\ segment_files' =
               IF current_time < total_duration /\ sil_ok
               THEN Append(segment_files,
                           [kind |-> "final", dur |-> total_duration - current_time,
                            seg |-> [start |-> current_time,
                                     len |-> total_duration - current_time,
                                     clip |-> Missing]])
               ELSE segment_files
         /\ silence_failed' = (\/ silence_failed
                               \/ current_time < total_duration /\ ~sil_ok)
    /\ temp_dir' = <<temp_dir[1] \o TempFiles(SubSeq(segment_files', Len(segment_files) + 1,
                                                  Len(segment_files')))>>
    /\ asm_pc' = "concat"
    /\ UNCHANGED <<HAS_RUBBERBAND, tts_segments, total_duration, asm_i,
                   current_time, asm_result>>

\* lines 197-238: concatenation
AsmConcat ==
    /\ asm_pc = "concat"
    /\ asm_pc' = "done"
    /\ IF segment_files = <<>>
       THEN /\ asm_result' = [success |-> FALSE, error |-> "No segments to concatenate"]
            /\ UNCHANGED temp_dir
       ELSE \E rc_ok \in BOOLEAN :
              /\ asm_result' = IF rc_ok
                               THEN [success |-> TRUE, error |-> "none"]
                               ELSE [success |-> FALSE, error |-> "Concatenation failed"]
              /\ temp_dir' = IF rc_ok
                             THEN CleanUp(Append(temp_dir[1], CONCAT_LIST), segment_files)
                             ELSE <<Append(temp_dir[1], CONCAT_LIST)>>
    /\ UNCHANGED <<HAS_RUBBERBAND, tts_segments, total_duration, asm_i,
                   current_time, segment_files, silence_failed>>

NextAsmStage ==
    \/ AsmEnter
    \/ AsmLoopSegment
    \/ AsmLoopEnd
    \/ AsmTrailing
    \/ AsmConcat

\* ---- segment_assembler.py : main, command "assemble" ----
VARIABLES
    cmd_segments     \* segments of <segments_json>; clip is Missing when
                     \* <tts_segments_dir>/segment_NNNN.mp3 does not exist

\* lines 274-285: the segments whose TTS file exists, in order
RECURSIVE MappedSegments(_)
MappedSegments(segs) ==
    IF segs = <<>> THEN <<>>
    ELSE (IF Head(segs).clip # Missing THEN <<Head(segs)>> ELSE <<>>)
         \o MappedSegments(Tail(segs))

\* line 292: max(seg["end"] for seg in mapped_segments)
RECURSIVE MaxEnd(_)
MaxEnd(segs) ==
    IF segs = <<>> THEN 0 ELSE Max(SegEnd(Head(segs)), MaxEnd(Tail(segs)))

CmdIdle == cmd_segments = <<>>

\* "assemble <segments_json> <tts_segments_dir> <output_path>" is run
AsmCmdInit ==
    /\ asm_pc = "main"
    /\ cmd_segments \in AsmInputs
    /\ HAS_RUBBERBAND \in BOOLEAN
    /\ tts_segments = <<>>
    /\ total_duration = 0
    /\ asm_i = 0
    /\ current_time = 0
    /\ segment_files = <<>>
    /\ asm_result = NoResult
    /\ silence_failed = FALSE
    /\ temp_dir = NoTempDir

\* lines 257-295: map the segments to their files and call
\* assemble_segments_with_timing
AsmMainAssemble ==
    /\ asm_pc = "main"
    /\ LET mapped_segments == MappedSegments(cmd_segments)
       IN IF mapped_segments = <<>>
          THEN /\ asm_pc' = "done"
               /\ asm_result' = [success |-> FALSE, error |-> "No TTS segments found"]
               /\ UNCHANGED <<tts_segments, total_duration>>
          ELSE /\ asm_pc' = "call"
               /\ tts_segments' = mapped_segments
               /\ total_duration' = MaxEnd(mapped_segments)
               /\ UNCHANGED asm_result
    /\ UNCHANGED <<HAS_RUBBERBAND, asm_i, current_time, segment_files,
                   silence_failed, temp_dir, cmd_segments>>

NextAsmCmd ==
    \/ AsmMainAssemble
    \/ NextAsmStage /\ UNCHANGED cmd_segments


-----------------------------------------------------------------------------
(* translate.py *)

BATCH_SIZE == 20           \* line 490
max_batch_failures == 3    \* line 493
TS_MAX_RETRIES == 3        \* default of max_retries, line 346

\* bound of the translate inputs: the largest number of timed segments
MaxTimedSegs == 45

\* A reply of the provider is a sequence of tokens:
\*   MARK  a numeric marker "[n]",  NL  a line break,
\*   JUNK  a word that translates nothing ("Here are the translations:"),
\*   k>=1  the translation of the text with id k.
MARK == -1
NL == -2
JUNK == 0

\* str.strip() on a token sequence: drop leading and trailing line breaks
RECURSIVE LStrip(_)
LStrip(t) == IF t # <<>> /\ Head(t) = NL THEN LStrip(Tail(t)) ELSE t

RECURSIVE RStrip(_)
RStrip(t) ==
    IF t # <<>> /\ t[Len(t)] = NL THEN RStrip(SubSeq(t, 1, Len(t) - 1)) ELSE t

Strip(t) == RStrip(LStrip(t))

\* first index >= p whose token is not a line break (Len+1 if none)
RECURSIVE SkipNL(_, _)
SkipNL(t, p) == IF p <= Len(t) /\ t[p] = NL THEN SkipNL(t, p + 1) ELSE p

\* last index e >= p of the lazy group (.+?): stops before the next marker or
\* at the end of the text
RECURSIVE LazyEnd(_, _)
LazyEnd(t, e) ==
    IF e >= Len(t) \/ t[e + 1] = MARK THEN e ELSE LazyEnd(t, e + 1)

\* re.findall(r'\[(\d+)\]\s*(.+?)(?=\[\d+\]|$)', result_text, re.DOTALL),
\* each match stripped (lines 423-426)
RECURSIVE RegexItems(_, _)
RegexItems(t, p) ==
    IF p > Len(t) THEN <<>>
    ELSE IF t[p] # MARK THEN RegexItems(t, p + 1)
    ELSE LET q == SkipNL(t, p + 1)
         IN IF q <= Len(t)
            THEN LET e == LazyEnd(t, q)
                 IN <<Strip(SubSeq(t, q, e))>> \o RegexItems(t, e + 1)
            ELSE IF q > p + 1
                 THEN <<<<>>>>          \* only line breaks follow the marker
                 ELSE <<>>              \* the marker is the last token

\* result_text.split('\n')
RECURSIVE SplitLines(_, _)
SplitLines(t, cur) ==
    IF t = <<>> THEN <<cur>>
    ELSE IF Head(t) = NL THEN <<cur>> \o SplitLines(Tail(t), <<>>)
    ELSE SplitLines(Tail(t), Append(cur, Head(t)))

\* [s.strip() for s in lines if s.strip()]
RECURSIVE DropBlank(_)
DropBlank(ls) ==
    IF ls = <<>> THEN <<>>
    ELSE IF Head(ls) = <<>> THEN DropBlank(Tail(ls))
    ELSE <<Head(ls)>> \o DropBlank(Tail(ls))

\* re.sub(r'^\[\d+\]\s*', '', s)
StripPrefix(l) == IF l # <<>> /\ Head(l) = MARK THEN Tail(l) ELSE l

\* lines 429-431: the line-split fallback
FallbackItems(t) ==
    LET ls == DropBlank(SplitLines(t, <<>>))
    IN [k \in 1..Len(ls) |-> StripPrefix(ls[k])]

\* lines 420-431: the translations extracted from a reply to n texts
ParseReply(reply, n) ==
    LET result_text == Strip(reply)
        items == RegexItems(result_text, 1)
    IN IF Len(items) # n THEN FallbackItems(result_text) ELSE items

\* --- replies the provider may give to a batch b of text ids ---
ReplyShapes == {"numbered", "inline", "plain", "short", "chatty"}

RECURSIVE JoinLines(_)
JoinLines(ls) ==
    IF ls = <<>> THEN <<>>
    ELSE IF Len(ls) = 1 THEN Head(ls)
    ELSE Head(ls) \o <<NL>> \o JoinLines(Tail(ls))

RECURSIVE Concat(_)
Concat(ls) == IF ls = <<>> THEN <<>> ELSE Head(ls) \o Concat(Tail(ls))

NumberedLines(b) == [k \in 1..Len(b) |-> <<MARK, b[k]>>]

PlainLines(b) == [k \in 1..Len(b) |-> <<b[k]>>]

MakeReply(shape, b) ==
    CASE shape = "numbered" -> JoinLines(NumberedLines(b))
      [] shape = "inline"   -> Concat(NumberedLines(b))
      [] shape = "plain"    -> JoinLines(PlainLines(b))
      [] shape = "short"    -> JoinLines(NumberedLines(SubSeq(b, 1, Len(b) - 1)))
      [] shape = "chatty"   -> <<JUNK, NL>> \o JoinLines(PlainLines(b))

\* --- inputs ---
TtCounts == {0, 1, BATCH_SIZE, BATCH_SIZE + 1, MaxTimedSegs}

BlankSets(n) == {{}, 1..n, {i \in 1..n : i % 3 = 2}}

\* segment i carries the text with id i (0 when blank) and its own timestamps
MkSegments(n, blank) ==
    [i \in 1..n |-> [text |-> IF i \in blank THEN 0 ELSE i,
                     start |-> 1000 * i, end |-> 1000 * i + 800]]

TtInputsOf(counts) ==
    {MkSegments(n, blank) : n \in counts, blank \in UNION {BlankSets(m) : m \in counts}}

TtInputs == TtInputsOf(TtCounts)

\* line 484: texts = [seg text for seg in segments if text.strip()]
RECURSIVE NonBlank(_)
NonBlank(segs) ==
    IF segs = <<>> THEN <<>>
    ELSE IF Head(segs).text # 0 THEN <<Head(segs)>> \o NonBlank(Tail(segs))
    ELSE NonBlank(Tail(segs))

TextsOf(segs) == LET nb == NonBlank(segs) IN [k \in 1..Len(nb) |-> nb[k].text]

\* texts[batch_start:batch_start + BATCH_SIZE]  (batch_start is 0-based)
BatchTexts(txts, bs) == SubSeq(txts, bs + 1, Min(bs + BATCH_SIZE, Len(txts)))

\* lines 535-549: re-attach the translations to the timestamps
RECURSIVE BuildTranslated(_, _, _)
BuildTranslated(segs, all_tr, text_idx) ==
    IF segs = <<>> THEN <<>>
    ELSE IF Head(segs).text # 0 /\ text_idx <= Len(all_tr)
    THEN <<[text |-> all_tr[text_idx], start |-> Head(segs).start,
            end |-> Head(segs).end, original_text |-> Head(segs).text]>>
         \o BuildTranslated(Tail(segs), all_tr, text_idx + 1)
    ELSE BuildTranslated(Tail(segs), all_tr, text_idx)

NoRet == [success |-> FALSE, translations |-> <<>>]

NoTtResult == [success |-> FALSE, error |-> "none", segments |-> <<>>, partial_count |-> -1]

TrIdle ==
    /\ tt_pc = "off"
    /\ has_api_key = FALSE
    /\ tt_segments = <<>>
    /\ texts = <<>>
    /\ batch_start = 0
    /\ all_translated = <<>>
    /\ failed_batches = 0
    /\ in_retry = FALSE
    /\ ts_attempt = 0
    /\ ts_waits = <<>>
    /\ ts_replies = <<>>
    /\ ts_ret = NoRet
    /\ call_log = <<>>
    /\ tt_events = <<>>
    /\ batch_requests = 0
    /\ tt_result = NoTtResult

\* a call of translate_timed_segments(segments, ...) with segments drawn from inputs
TrInitWith(inputs) ==
    /\ tt_pc = "call"
    /\ has_api_key \in BOOLEAN
    /\ tt_segments \in inputs
    /\ texts = <<>>
    /\ batch_start = 0
    /\ all_translated = <<>>
    /\ failed_batches = 0
    /\ in_retry = FALSE
    /\ ts_attempt = 0
    /\ ts_waits = <<>>
    /\ ts_replies = <<>>
    /\ ts_ret = NoRet
    /\ call_log = <<>>
    /\ tt_events = <<>>
    /\ batch_requests = 0
    /\ tt_result = NoTtResult

TrInit == TrInitWith(TtInputs)

\* lines 484-493
\* line 516: time.sleep(10) before a failed batch is sent again
RETRY_WAIT == 10000

\* line 533: time.sleep(1.5) between batches
BATCH_WAIT == 1500

\* the first urlopen (line 417) of a translate_segments call for the batch starting at b
Request(b) == [kind |-> "request", batch |-> b, ms |-> 0]

\* tt_events after a request: the first request of each call is recorded
LogRequest ==
    IF ts_replies = <<>> THEN Append(tt_events, Request(batch_start)) ELSE tt_events

\* one time.sleep of translate_timed_segments made after the batch starting at b
Sleep(b, ms) == [kind |-> "sleep", batch |-> b, ms |-> ms]

\* mutant: the wait is made after every batch, the last one included
SleepsAfterBatch_Always(bs, n) == TRUE

\* line 532: the wait is made only when another batch follows
SleepsAfterBatch(bs, n) == bs + BATCH_SIZE < n

TtEnter ==
    /\ tt_pc = "call"
    /\ texts' = TextsOf(tt_segments)
    /\ IF texts' = <<>>
       THEN /\ tt_pc' = "done"
            /\ tt_result' = [NoTtResult EXCEPT !.error = "No text segments to translate"]
       ELSE /\ tt_pc' = "batch"
            /\ UNCHANGED tt_result
    /\ UNCHANGED <<has_api_key, tt_segments, batch_start, all_translated,
                   failed_batches, in_retry, ts_attempt, ts_waits, ts_replies, ts_ret,
                   call_log, tt_events, batch_requests>>

\* translate_segments lines 364-412: credential check, build the request
TsBegin ==
    /\ tt_pc \in {"batch", "retry"}
    /\ in_retry' = (tt_pc = "retry")
    /\ ts_waits' = <<>>
    /\ ts_replies' = <<>>
    /\ ts_attempt' = 0
    /\ IF ~has_api_key
       THEN /\ tt_pc' = "ret"
            /\ ts_ret' = NoRet
            /\ call_log' = Append(call_log, [batch |-> batch_start, ok |-> FALSE])
       ELSE /\ tt_pc' = "req"
            /\ UNCHANGED <<ts_ret, call_log>>
    /\ UNCHANGED <<has_api_key, tt_segments, texts, batch_start, all_translated,
                   failed_batches, tt_events, batch_requests, tt_result>>

\* the call returns failure (lines 463-466)
TsFail ==
    /\ tt_pc' = "ret"
    /\ ts_ret' = NoRet
    /\ call_log' = Append(call_log, [batch |-> batch_start, ok |-> FALSE])

\* mutant: the loop makes one attempt more than max_retries
MoreAttempts_OneMore(attempt) == attempt < TS_MAX_RETRIES

\* line 413: for attempt in range(max_retries), another iteration follows
MoreAttempts(attempt) == attempt + 1 < TS_MAX_RETRIES

\* after a retryable error: next iteration of the loop or loop exhausted
TsRetryOrFail ==
    IF MoreAttempts(ts_attempt)
    THEN /\ tt_pc' = "req"
         /\ UNCHANGED <<ts_ret, call_log>>
    ELSE TsFail

Pow2(k) == IF k = 0 THEN 1 ELSE IF k = 1 THEN 2 ELSE IF k = 2 THEN 4 ELSE 8

\* lines 413-440: a request that is answered; the reply is parsed
TsRequestOk ==
    /\ tt_pc = "req"
    /\ \E shape \in ReplyShapes :
         LET b == BatchTexts(texts, batch_start)
         IN ts_ret' = [success |-> TRUE,
                       translations |-> ParseReply(MakeReply(shape, b), Len(b))]
    /\ tt_pc' = "ret"
    /\ call_log' = Append(call_log, [batch |-> batch_start, ok |-> TRUE])
    /\ ts_replies' = Append(ts_replies, "ok")
    /\ tt_events' = LogRequest
    /\ batch_requests' = batch_requests + 1
    /\ UNCHANGED <<has_api_key, tt_segments, texts, batch_start, all_translated,
                   failed_batches, in_retry, ts_attempt, ts_waits, tt_result>>

\* lines 442-447: HTTP 429, wait 5, 10, 20 s
TsRateLimited ==
    /\ tt_pc = "req"
    /\ ts_waits' = Append(ts_waits, Pow2(ts_attempt) * 5000)
    /\ ts_replies' = Append(ts_replies, "429")
    /\ tt_events' = LogRequest
    /\ batch_requests' = batch_requests + 1
    /\ ts_attempt' = ts_attempt + 1
    /\ TsRetryOrFail
    /\ UNCHANGED <<has_api_key, tt_segments, texts, batch_start, all_translated,
                   failed_batches, in_retry, tt_result>>

\* lines 448-451: HTTP 5xx, wait 2, 4, 8 s
TsServerError ==
    /\ tt_pc = "req"
    /\ ts_waits' = Append(ts_waits, Pow2(ts_attempt) * 2000)
    /\ ts_replies' = Append(ts_replies, "5xx")
    /\ tt_events' = LogRequest
    /\ batch_requests' = batch_requests + 1
    /\ ts_attempt' = ts_attempt + 1
    /\ TsRetryOrFail
    /\ UNCHANGED <<has_api_key, tt_segments, texts, batch_start, all_translated,
                   failed_batches, in_retry, tt_result>>

\* lines 454-458: URLError, wait 3, 6, 12 s
TsNetworkError ==
    /\ tt_pc = "req"
    /\ ts_waits' = Append(ts_waits, Pow2(ts_attempt) * 3000)
    /\ ts_replies' = Append(ts_replies, "network")
    /\ tt_events' = LogRequest
    /\ batch_requests' = batch_requests + 1
    /\ ts_attempt' = ts_attempt + 1
    /\ TsRetryOrFail
    /\ UNCHANGED <<has_api_key, tt_segments, texts, batch_start, all_translated,
                   failed_batches, in_retry, tt_result>>

\* mutant: a client error is retried like a server error, without a wait
TsClientError_Retried ==
    /\ tt_pc = "req"
    /\ ts_replies' = Append(ts_replies, "4xx")
    /\ tt_events' = LogRequest
    /\ batch_requests' = batch_requests + 1
    /\ ts_attempt' = ts_attempt + 1
    /\ TsRetryOrFail
    /\ UNCHANGED <<has_api_key, tt_segments, texts, batch_start, all_translated,
                   failed_batches, in_retry, ts_waits, tt_result>>

\* lines 452-453 and 459-461: other 4xx or any other exception, no retry
TsClientError ==
    /\ tt_pc = "req"
    /\ TsFail
    /\ ts_replies' = Append(ts_replies, "4xx")
    /\ tt_events' = LogRequest
    /\ batch_requests' = batch_requests + 1
    /\ UNCHANGED <<has_api_key, tt_segments, texts, batch_start, all_translated,
                   failed_batches, in_retry, ts_attempt, ts_waits, tt_result>>

\* lines 503-524: the call for the current batch failed
TtBatchFailed ==
    /\ tt_pc = "ret"
    /\ ~ts_ret.success
    /\ IF in_retry
       THEN \* the retry of line 517 failed
            /\ tt_pc' = "done"
            /\ tt_result' = [NoTtResult EXCEPT !.error = "Batch failed after retry",
                                               !.partial_count = Len(all_translated)]
            /\ UNCHANGED failed_batches
       ELSE /\ failed_batches' = failed_batches + 1
            /\ IF failed_batches' >= max_batch_failures
               THEN /\ tt_pc' = "done"
                    /\ tt_result' = [NoTtResult EXCEPT !.error = "Translation failed after batch failures",
                                                       !.partial_count = Len(all_translated)]
               ELSE /\ tt_pc' = "retry"
                    /\ UNCHANGED tt_result
    /\ tt_events' = IF tt_pc' = "retry"
                    THEN Append(tt_events, Sleep(batch_start, RETRY_WAIT))
                    ELSE tt_events
    /\ UNCHANGED <<has_api_key, tt_segments, texts, batch_start, all_translated,
                   in_retry, ts_attempt, ts_waits, ts_replies, ts_ret,
                   call_log, batch_requests>>

\* lines 526-557: the batch is translated; next batch or build the result
TtBatchDone ==
    /\ tt_pc = "ret"
    /\ ts_ret.success
    /\ all_translated' = all_translated \o ts_ret.translations
    /\ IF batch_start + BATCH_SIZE < Len(texts)
       THEN /\ batch_start' = batch_start + BATCH_SIZE
            /\ batch_requests' = 0
            /\ tt_pc' = "batch"
            /\ UNCHANGED tt_result
       ELSE /\ tt_pc' = "done"
            /\ tt_result' = [success |-> TRUE, error |-> "none",
                             segments |-> BuildTranslated(tt_segments, all_translated', 1),
                             partial_count |-> -1]
            /\ UNCHANGED <<batch_start, batch_requests>>
    /\ tt_events' = IF SleepsAfterBatch(batch_start, Len(texts))
                    THEN Append(tt_events, Sleep(batch_start, BATCH_WAIT))
                    ELSE tt_events
    /\ UNCHANGED <<has_api_key, tt_segments, texts, failed_batches, in_retry,
                   ts_attempt, ts_waits, ts_replies, ts_ret,
                   call_log>>

NextTr ==
    \/ TtEnter
    \/ TsBegin
    \/ TsRequestOk
    \/ TsRateLimited
    \/ TsServerError
    \/ TsNetworkError
    \/ TsClientError
    \/ TtBatchFailed
    \/ TtBatchDone

-----------------------------------------------------------------------------
(* voice_selector.py *)

\* bound: number of get_voice_for_speaker calls on one VoiceAssigner
MaxVoiceCalls == 3

\* EDGE_TTS_VOICES, lines 18-167 (the entries of "en", "fr" and "it");
\* keys and language arguments are sequences of characters
EDGE_TTS_VOICES ==
    (<<"e", "n">> :> [male |-> << [name |-> "en-US-GuyNeural", style |-> "general"],
                                  [name |-> "en-US-DavisNeural", style |-> "general"],
                                  [name |-> "en-US-TonyNeural", style |-> "general"],
                                  [name |-> "en-US-JasonNeural", style |-> "general"],
                                  [name |-> "en-GB-RyanNeural", style |-> "general"] >>,
                      female |-> << [name |-> "en-US-JennyNeural", style |-> "general"],
                                    [name |-> "en-US-AriaNeural", style |-> "expressive"],
                                    [name |-> "en-US-SaraNeural", style |-> "general"],
                                    [name |-> "en-US-MichelleNeural", style |-> "general"],
                                    [name |-> "en-GB-SoniaNeural", style |-> "general"] >>])
    @@ (<<"f", "r">> :> [male |-> << [name |-> "fr-FR-HenriNeural", style |-> "general"],
                                     [name |-> "fr-CA-AntoineNeural", style |-> "general"] >>,
                         female |-> << [name |-> "fr-FR-DeniseNeural", style |-> "general"],
                                       [name |-> "fr-CA-SylvieNeural", style |-> "general"] >>])
    @@ (<<"i", "t">> :> [male |-> << [name |-> "it-IT-DiegoNeural", style |-> "general"] >>,
                         female |-> << [name |-> "it-IT-ElsaNeural", style |-> "general"],
                                       [name |-> "it-IT-IsabellaNeural", style |-> "general"] >>])

\* str.lower() on the characters that occur in the language arguments
LowerChar(c) ==
    CASE c = "F" -> "f" [] c = "R" -> "r" [] c = "C" -> "c" [] c = "A" -> "a"
      [] OTHER -> c

\* language[:2].lower(), then the fallback to English (lines 201-203)
LangCode(language) ==
    LET two == SubSeq(language, 1, Min(2, Len(language)))
        low == [k \in 1..Len(two) |-> LowerChar(two[k])]
    IN IF low \in DOMAIN EDGE_TTS_VOICES THEN low ELSE <<"e", "n">>

\* f"{speaker_id}_{language}"
CacheKey(speaker_id, language) == speaker_id \o <<"_">> \o language

\* mutant: the cache is never consulted
CacheHit_Never(map, cache_key) == FALSE

\* line 189: cache_key in self.speaker_voice_map
CacheHit(map, cache_key) == cache_key \in DOMAIN map

\* lines 197-198
ResolveGender(gender, pitch_estimate) ==
    IF gender = "unknown"
    THEN IF pitch_estimate > 180 THEN "female" ELSE "male"
    ELSE gender

\* EDGE_TTS_VOICES[lang_code].get(gender, [])
VoicesGet(lang_code, gender) ==
    CASE gender = "male" -> EDGE_TTS_VOICES[lang_code].male
      [] gender = "female" -> EDGE_TTS_VOICES[lang_code].female
      [] OTHER -> <<>>

\* lines 205-207
CandidateVoices(lang_code, gender) ==
    IF VoicesGet(lang_code, gender) # <<>>
    THEN VoicesGet(lang_code, gender)
    ELSE VoicesGet(lang_code, IF gender = "male" THEN "female" ELSE "male")

\* lines 222-236
SelectVoice(voices, used, style) ==
    LET unused == {k \in 1..Len(voices) :
                     /\ voices[k].name \notin used
                     /\ (style = "general" \/ voices[k].style = style)}
        styled == {k \in 1..Len(voices) : voices[k].style = style}
        least(S) == CHOOSE k \in S : \A j \in S : k <= j
    IN IF unused # {} THEN voices[least(unused)].name
       ELSE IF styled # {} THEN voices[least(styled)].name
       ELSE voices[1].name

VaSpeakers == {<<"0">>, <<"1">>, <<"2">>}
VaLanguages == {<<"f", "r">>, <<"F", "R", "-", "C", "A">>, <<"x", "x">>}
VaStyles == {"general", "expressive"}
\* gender and pitch_estimate arguments (the pitch is read only for "unknown")
VaVoiceArgs ==
    {[gender |-> "male", pitch_estimate |-> 200],
     [gender |-> "female", pitch_estimate |-> 200],
     [gender |-> "child", pitch_estimate |-> 200],
     [gender |-> "unknown", pitch_estimate |-> 150],
     [gender |-> "unknown", pitch_estimate |-> 200]}

NoCall == [speaker_id |-> <<>>, language |-> <<>>, voice |-> "none", cached |-> FALSE]

VaIdle ==
    /\ va_pc = "off"
    /\ speaker_voice_map = <<>>
    /\ used_voices = <<>>
    /\ va_calls = 0
    /\ va_last = NoCall
    /\ va_first = <<>>

\* VoiceAssigner.__init__, lines 171-173
VaInit ==
    /\ va_pc = "on"
    /\ speaker_voice_map = <<>>
    /\ used_voices = <<>>
    /\ va_calls = 0
    /\ va_last = NoCall
    /\ va_first = <<>>

UsedIn(used, lang_code) == IF lang_code \in DOMAIN used THEN used[lang_code] ELSE {}

\* get_voice_for_speaker, lines 175-248
GetVoiceForSpeaker(speaker_id, language, gender, pitch_estimate, style) ==
    /\ va_pc = "on"
    /\ va_calls < MaxVoiceCalls
    /\ va_calls' = va_calls + 1
    /\ LET cache_key == CacheKey(speaker_id, language)
           lang_code == LangCode(language)
           voices == CandidateVoices(lang_code, ResolveGender(gender, pitch_estimate))
           selected_voice == SelectVoice(voices, UsedIn(used_voices, lang_code), style)
           voice == IF CacheHit(speaker_voice_map, cache_key)
                    THEN speaker_voice_map[cache_key]
                    ELSE IF voices = <<>> THEN "en-US-JennyNeural"
                    ELSE selected_voice
       IN /\ IF CacheHit(speaker_voice_map, cache_key) \/ voices = <<>>
             THEN UNCHANGED <<speaker_voice_map, used_voices>>
             ELSE /\ speaker_voice_map' = (cache_key :> selected_voice) @@ speaker_voice_map
                  /\ used_voices' = (lang_code :> (UsedIn(used_voices, lang_code)
                                                   \cup {selected_voice})) @@ used_voices
          /\ va_last' = [speaker_id |-> speaker_id, language |-> language,
                         voice |-> voice,
                         cached |-> CacheHit(speaker_voice_map, cache_key)]
          /\ va_first' = IF <<speaker_id, language>> \in DOMAIN va_first
                         THEN va_first
                         ELSE (<<speaker_id, language>> :> voice) @@ va_first
    /\ UNCHANGED va_pc

NextVa ==
    \E speaker_id \in VaSpeakers, language \in VaLanguages, a \in VaVoiceArgs,
       style \in VaStyles :
        GetVoiceForSpeaker(speaker_id, language, a.gender, a.pitch_estimate, style)

-----------------------------------------------------------------------------
(* edge_tts_dub.py : generate_audio *)

\* bound: number of generate_audio calls in one process
MaxGaCalls == 6

GA_MAX_RETRIES == 3          \* default of max_retries, line 498
EDGE_SKIP_THRESHOLD == 3     \* lines 518 and 560

\* line 518
SkipEdge(consecutive_failures) == consecutive_failures >= EDGE_SKIP_THRESHOLD

\* mutant: a primary success leaves the counter as it is
CounterAfterSuccess_NoReset(consecutive_failures) == consecutive_failures

\* line 536: the counter after a primary success
CounterAfterSuccess(consecutive_failures) == 0

\* line 558: the counter after the primary retries are exhausted
CounterAfterFailure(consecutive_failures) == consecutive_failures + 1

GaIdle ==
    /\ ga_pc = "off"
    /\ GTTS_AVAILABLE = FALSE
    /\ EDGE_TTS_WORKING = "None"
    /\ EDGE_TTS_CONSECUTIVE_FAILURES = 0
    /\ skip_edge_tts = FALSE
    /\ ga_attempt = 0
    /\ ga_edge_reqs = 0
    /\ ga_waits = <<>>
    /\ ga_history = <<>>
    /\ ga_job_starts = {}

\* module import, lines 14-23
GaInit ==
    /\ ga_pc = "idle"
    /\ GTTS_AVAILABLE \in BOOLEAN
    /\ EDGE_TTS_WORKING = "None"
    /\ EDGE_TTS_CONSECUTIVE_FAILURES = 0
    /\ skip_edge_tts = FALSE
    /\ ga_attempt = 0
    /\ ga_edge_reqs = 0
    /\ ga_waits = <<>>
    /\ ga_history = <<>>
    /\ ga_job_starts = {}

\* lines 513-520: a call of generate_audio begins
GaCall ==
    /\ ga_pc = "idle"
    /\ Len(ga_history) < MaxGaCalls
    /\ skip_edge_tts' = SkipEdge(EDGE_TTS_CONSECUTIVE_FAILURES)
    /\ ga_pc' = IF skip_edge_tts' THEN "gtts" ELSE "edge"
    /\ ga_attempt' = 0
    /\ ga_edge_reqs' = 0
    /\ ga_waits' = <<>>
    /\ UNCHANGED <<GTTS_AVAILABLE, EDGE_TTS_WORKING, EDGE_TTS_CONSECUTIVE_FAILURES,
                   ga_history, ga_job_starts>>

\* lines 523-545: the primary provider produced a valid file
GaEdgeSuccess ==
    /\ ga_pc = "edge"
    /\ ga_edge_reqs' = ga_edge_reqs + 1
    /\ EDGE_TTS_WORKING' = "True"
    /\ EDGE_TTS_CONSECUTIVE_FAILURES' = CounterAfterSuccess(EDGE_TTS_CONSECUTIVE_FAILURES)
    /\ ga_history' = Append(ga_history,
                             [edge_reqs |-> ga_edge_reqs + 1, edge_ok |-> TRUE,
                              exhausted |-> FALSE, skipped |-> FALSE,
                              gtts_called |-> FALSE, success |-> TRUE])
    /\ ga_pc' = "idle"
    /\ UNCHANGED <<GTTS_AVAILABLE, skip_edge_tts, ga_attempt, ga_waits, ga_job_starts>>

\* lines 546-561: the attempt raised; back off, or leave the loop after the
\* last attempt and count the failure
GaEdgeFailure ==
    /\ ga_pc = "edge"
    /\ ga_edge_reqs' = ga_edge_reqs + 1
    /\ IF ga_attempt < GA_MAX_RETRIES - 1
       THEN /\ ga_waits' = Append(ga_waits, Pow2(ga_attempt + 1) * 1000)
            /\ ga_attempt' = ga_attempt + 1
            /\ UNCHANGED <<ga_pc, EDGE_TTS_WORKING, EDGE_TTS_CONSECUTIVE_FAILURES>>
       ELSE /\ EDGE_TTS_WORKING' = "False"
            /\ EDGE_TTS_CONSECUTIVE_FAILURES' =
                   CounterAfterFailure(EDGE_TTS_CONSECUTIVE_FAILURES)
            /\ ga_pc' = "gtts"
            /\ UNCHANGED <<ga_attempt, ga_waits>>
    /\ UNCHANGED <<GTTS_AVAILABLE, skip_edge_tts, ga_history, ga_job_starts>>

\* lines 563-581: the fallback provider, if installed
GaFallback ==
    /\ ga_pc = "gtts"
    /\ \E gtts_ok \in BOOLEAN :
         ga_history' = Append(ga_history,
                              [edge_reqs |-> ga_edge_reqs, edge_ok |-> FALSE,
                               exhausted |-> ~skip_edge_tts, skipped |-> skip_edge_tts,
                               gtts_called |-> GTTS_AVAILABLE,
                               success |-> GTTS_AVAILABLE /\ gtts_ok])
    /\ ga_pc' = "idle"
    /\ UNCHANGED <<GTTS_AVAILABLE, EDGE_TTS_WORKING, EDGE_TTS_CONSECUTIVE_FAILURES,
                   skip_edge_tts, ga_attempt, ga_edge_reqs, ga_waits, ga_job_starts>>

\* a second job begins in the same process: the module globals of lines
\* 22-23 are assigned at import only, so they keep their values
GaJobStart ==
    /\ ga_pc = "idle"
    /\ ga_history # <<>>
    /\ ga_job_starts = {}
    /\ ga_job_starts' = ga_job_starts \cup {Len(ga_history)}
    /\ UNCHANGED <<ga_pc, GTTS_AVAILABLE, EDGE_TTS_WORKING,
                   EDGE_TTS_CONSECUTIVE_FAILURES, skip_edge_tts, ga_attempt,
                   ga_edge_reqs, ga_waits, ga_history>>

NextGa ==
    \/ GaJobStart
    \/ GaCall
    \/ GaEdgeSuccess
    \/ GaEdgeFailure
    \/ GaFallback

-----------------------------------------------------------------------------
(* edge_tts_dub.py : generate_segment_audio, generate_segments_audio *)

\* bound: number of segments in the segments file
MaxSynthSegs == 6

SEG_MAX_RETRIES == 3         \* default of max_retries, line 299
GOOD_LIMIT_MS == 500         \* line 369
FAIR_LIMIT_MS == 1000        \* line 369
RATE_MIN == -50              \* line 293
RATE_MAX == 100              \* line 293

\* int(x) of Python truncates towards zero; a / b for b > 0
TruncDiv(a, b) == IF a >= 0 THEN a \div b ELSE -((-a) \div b)

\* line 353: int(((actual_duration / target_duration) - 1) * 100)
RateAdjustment(actual, target) == TruncDiv((actual - target) * 100, target)

\* combine_rates, lines 288-297 (the rate as an integer percentage)
CombineRates(emotion_rate, alignment_rate) ==
    Max(RATE_MIN, Min(RATE_MAX, emotion_rate + alignment_rate))

\* detect_emotion, lines 215-241: the rate of the first emotion of
\* EMOTION_KEYWORDS one of whose keywords the text contains (a text of the
\* model is a single word)
EmotionRate(text) ==
    CASE text = "angry" -> 15
      [] text = "sorry" -> -10
      [] text = "wow" -> 20
      [] text = "help" -> 5
      [] text = "shh" -> -15
      [] OTHER -> 0

\* mutant: the fair class reaches up to 2 s
SyncQuality_WideFair(sync_error) ==
    IF Abs(sync_error) <= GOOD_LIMIT_MS THEN "good"
    ELSE IF Abs(sync_error) <= 2 * FAIR_LIMIT_MS THEN "fair"
    ELSE "poor"

\* line 369
SyncQuality(sync_error) ==
    IF Abs(sync_error) <= GOOD_LIMIT_MS THEN "good"
    ELSE IF Abs(sync_error) <= FAIR_LIMIT_MS THEN "fair"
    ELSE "poor"

NoSegResult ==
    [success |-> FALSE, error |-> "none", target_duration |-> 0, first_duration |-> 0,
     actual_duration |-> 0, sync_error |-> 0, sync_quality |-> "none",
     final_rate |-> 0, renders |-> 0, attempts |-> 0, waits |-> <<>>]

\* lines 386-392: asyncio.sleep(2 ** (attempt + 1)) after a failed attempt
\* that is not the last one
SegWaits(fails) ==
    [k \in 1..Min(fails, SEG_MAX_RETRIES - 1) |-> Pow2(k) * 1000]

\* generate_segment_audio, lines 299-399.
\*   target : target_duration (0 stands for None)
\*   fails  : attempts that raised before one succeeded
\*   d1, d2 : durations measured after the first and the second render
GenerateSegmentAudio(segment, target, fails, d1, d2) ==
    IF segment.text = ""
    THEN [NoSegResult EXCEPT !.error = "Empty segment text"]
    ELSE IF fails >= SEG_MAX_RETRIES
    THEN [NoSegResult EXCEPT !.error = "tts failed", !.attempts = SEG_MAX_RETRIES,
                             !.waits = SegWaits(fails)]
    ELSE LET base_rate == EmotionRate(segment.text)
             aligned == target > 0 /\ d1 > 0
             rerender == aligned /\ Abs(d1 - target) > SYNC_THRESHOLD_MS
             actual == IF rerender THEN d2 ELSE d1
             sync_error == IF aligned THEN actual - target ELSE 0
         IN [success |-> TRUE, error |-> "none", target_duration |-> target,
             first_duration |-> d1, actual_duration |-> actual,
             sync_error |-> sync_error, sync_quality |-> SyncQuality(sync_error),
             final_rate |-> IF rerender
                            THEN CombineRates(base_rate, RateAdjustment(d1, target))
                            ELSE base_rate,
             renders |-> IF rerender THEN 2 ELSE 1,
             attempts |-> fails + 1,
             waits |-> SegWaits(fails)]

\* mutant: a failure share of exactly 20% is accepted
LessThanFifth_Inclusive(n_failed, n_segments) == 5 * n_failed <= n_segments

\* line 450: failed < len(segments) * 0.2
LessThanFifth(n_failed, n_segments) == 5 * n_failed < n_segments

\* a segments file: n segments, those in blank have an empty text, and every
\* segment carries the duration d (0: the file has no "duration" fields)
SynDurations == {0, 3000}

MkSynSegments(n, blank, d) ==
    [i \in 1..n |-> [text |-> IF i \in blank THEN "" ELSE "hello", duration |-> d]]

SynInputsUpTo(max) ==
    {MkSynSegments(n, blank, d) : n \in 0..max, blank \in SUBSET (1..max), d \in SynDurations}

SynInputs == SynInputsUpTo(MaxSynthSegs)

\* what the provider and the probe do during one generate_segment_audio call:
\* fails attempts raise, then the first render measures d1 and a second one d2
SynOutcomes ==
    {[fails |-> 3, d1 |-> 0, d2 |-> 0],
     [fails |-> 0, d1 |-> 3000, d2 |-> 0],
     [fails |-> 2, d1 |-> 3200, d2 |-> 0],
     [fails |-> 0, d1 |-> 0, d2 |-> 0],
     [fails |-> 0, d1 |-> 4100, d2 |-> 3400],
     [fails |-> 1, d1 |-> 4100, d2 |-> 3700],
     [fails |-> 0, d1 |-> 4100, d2 |-> 4500]}

NoSynResult == [success |-> FALSE, error |-> "none", counted |-> FALSE]

SynIdle ==
    /\ syn_pc = "off"
    /\ syn_segments = <<>>
    /\ syn_i = 0
    /\ results = <<>>
    /\ successful = 0
    /\ failed = 0
    /\ sync_stats = [good |-> 0, fair |-> 0, poor |-> 0]
    /\ seg_result = NoSegResult
    /\ syn_result = NoSynResult

\* a call of generate_segments_audio on a file whose segments are drawn from inputs
SynInitWith(inputs) ==
    /\ syn_pc = "call"
    /\ syn_segments \in inputs
    /\ syn_i = 0
    /\ results = <<>>
    /\ successful = 0
    /\ failed = 0
    /\ sync_stats = [good |-> 0, fair |-> 0, poor |-> 0]
    /\ seg_result = NoSegResult
    /\ syn_result = NoSynResult

SynInit == SynInitWith(SynInputs)

\* lines 414-428
SynEnter ==
    /\ syn_pc = "call"
    /\ IF syn_segments = <<>>
       THEN /\ syn_pc' = "done"
            /\ syn_result' = [NoSynResult EXCEPT !.error = "No segments found in file"]
            /\ UNCHANGED syn_i
       ELSE /\ syn_pc' = "loop"
            /\ syn_i' = 1
            /\ UNCHANGED syn_result
    /\ UNCHANGED <<syn_segments, results, successful, failed, sync_stats, seg_result>>

\* mutant: only a "good" segment is counted in sync_stats
AddQuality_GoodOnly(stats, sync_quality) ==
    IF sync_quality = "good" THEN [stats EXCEPT !.good = @ + 1] ELSE stats

\* lines 439-440: sync_stats[sync_quality] = sync_stats.get(sync_quality, 0) + 1
AddQuality(stats, sync_quality) == [stats EXCEPT ![sync_quality] = @ + 1]

\* lines 430-444: one iteration of the loop, the provider and the probe
\* behaving as one of outcomes
SynSegmentWith(outcomes) ==
    /\ syn_pc = "loop"
    /\ syn_i <= Len(syn_segments)
    /\ \E o \in outcomes :
         LET segment == syn_segments[syn_i]
             result == GenerateSegmentAudio(segment, segment.duration, o.fails, o.d1, o.d2)
         IN /\ seg_result' = result
            /\ results' = Append(results, [success |-> result.success,
                                           error |-> result.error,
                                           sync_quality |-> result.sync_quality])
            /\ IF result.success
               THEN /\ successful' = successful + 1
                    /\ sync_stats' = AddQuality(sync_stats, result.sync_quality)
                    /\ UNCHANGED failed
               ELSE /\ failed' = failed + 1
                    /\ UNCHANGED <<successful, sync_stats>>
    /\ syn_i' = syn_i + 1
    /\ UNCHANGED <<syn_pc, syn_segments, syn_result>>

SynSegment == SynSegmentWith(SynOutcomes)

\* lines 446-458
SynFinish ==
    /\ syn_pc = "loop"
    /\ syn_i > Len(syn_segments)
    /\ syn_pc' = "done"
    /\ syn_result' = [success |-> LessThanFifth(failed, Len(syn_segments)),
                      error |-> "none", counted |-> TRUE]
    /\ UNCHANGED <<syn_segments, syn_i, results, successful, failed, sync_stats,
                   seg_result>>

NextSyn ==
    \/ SynEnter
    \/ SynSegment
    \/ SynFinish

\* generate_segment_audio on its own: a file of one segment, with the texts of
\* several emotions, and first measurements on both sides of the target.
\* The durations are those for which the floating-point quotient of line 353
\* is not within rounding error of an integer boundary.
RateTexts == {"angry", "sorry", "wow", "help", "shh", "what", "hello"}

RateTargets == {0, 3000}

RateFirstDurations == {0, 500, 1000, 2000, 2900, 3200, 3400, 4100, 9000}

RateSecondDurations == {3000, 3400}

RateInputs == {<<[text |-> t, duration |-> d]>> : t \in RateTexts, d \in RateTargets}

RateOutcomes ==
    [fails : {0, 1}, d1 : RateFirstDurations, d2 : RateSecondDurations]

NextRate ==
    \/ SynEnter
    \/ SynSegmentWith(RateOutcomes)
    \/ SynFinish

-----------------------------------------------------------------------------
(* audio_preprocess.py : preprocess_for_transcription *)

VARIABLES
    pp_pc,                  \* "off" | "extract" | "highpass" | "denoise" | "normalize" | "copy" | "done"
    pp_is_video,            \* input_ext in video_extensions
    apply_highpass,         \* argument
    apply_noise_reduction,  \* argument
    apply_normalization,    \* argument
    current_file,           \* content of current_file: the steps applied to the input
    steps_completed,        \* steps_completed
    pp_log,                 \* history: one entry [step, ok] per sub-step attempted
    output_file,            \* content of output_file, NoFile until it is written
    pp_result               \* returned dict: [success, error]

ppVars == <<pp_pc, pp_is_video, apply_highpass, apply_noise_reduction,
            apply_normalization, current_file, steps_completed, pp_log,
            output_file, pp_result>>

NoFile == <<"none">>

\* mutant: the artifact of a failed sub-step is used as if it had succeeded
AfterStep_KeepFailed(file, step, ok) == Append(file, step)

\* lines 143-165: "if result['success']: current_file = <artifact>"
AfterStep(file, step, ok) == IF ok THEN Append(file, step) ELSE file

PpIdle ==
    /\ pp_pc = "off"
    /\ pp_is_video = FALSE
    /\ apply_highpass = FALSE
    /\ apply_noise_reduction = FALSE
    /\ apply_normalization = FALSE
    /\ current_file = <<>>
    /\ steps_completed = <<>>
    /\ pp_log = <<>>
    /\ output_file = NoFile
    /\ pp_result = NoResult

\* a call of preprocess_for_transcription; lines 122-124
PpInit ==
    /\ pp_pc = "extract"
    /\ pp_is_video \in BOOLEAN
    /\ apply_highpass \in BOOLEAN
    /\ apply_noise_reduction \in BOOLEAN
    /\ apply_normalization \in BOOLEAN
    /\ current_file = <<>>
    /\ steps_completed = <<>>
    /\ pp_log = <<>>
    /\ output_file = NoFile
    /\ pp_result = NoResult

\* one optional sub-step: attempted when enabled, its artifact used on success
PpSubStep(at, enabled, step, name, then) ==
    /\ pp_pc = at
    /\ pp_pc' = then
    /\ IF enabled
       THEN \E ok \in BOOLEAN :
              /\ current_file' = AfterStep(current_file, step, ok)
              /\ steps_completed' = IF ok THEN Append(steps_completed, name)
                                    ELSE steps_completed
              /\ pp_log' = Append(pp_log, [step |-> step, ok |-> ok])
       ELSE UNCHANGED <<current_file, steps_completed, pp_log>>
    /\ UNCHANGED <<pp_is_video, apply_highpass, apply_noise_reduction,
                   apply_normalization, output_file, pp_result>>

\* lines 127-138: extract the audio track of a video container
PpExtract ==
    /\ pp_pc = "extract"
    /\ IF pp_is_video
       THEN \E ok \in BOOLEAN :
              /\ pp_log' = Append(pp_log, [step |-> "extract", ok |-> ok])
              /\ IF ok
                 THEN /\ current_file' = <<"extract">>
                      /\ steps_completed' = Append(steps_completed, "extract_audio")
                      /\ pp_pc' = "highpass"
                      /\ UNCHANGED pp_result
                 ELSE /\ pp_pc' = "done"
                      /\ pp_result' = [success |-> FALSE,
                                       error |-> "Audio extraction failed"]
                      /\ UNCHANGED <<current_file, steps_completed>>
       ELSE /\ pp_pc' = "highpass"
            /\ UNCHANGED <<current_file, steps_completed, pp_log, pp_result>>
    /\ UNCHANGED <<pp_is_video, apply_highpass, apply_noise_reduction,
                   apply_normalization, output_file>>

\* lines 140-146
PpHighpass ==
    PpSubStep("highpass", apply_highpass, "highpass", "highpass_filter", "denoise")

\* lines 148-154
PpDenoise ==
    PpSubStep("denoise", apply_noise_reduction, "denoise", "noise_reduction", "normalize")

\* lines 156-162
PpNormalize ==
    PpSubStep("normalize", apply_normalization, "normalize", "normalization", "copy")

\* lines 164-176: copy to the output; shutil.copy2 or os.path.getsize may raise
PpCopy ==
    /\ pp_pc = "copy"
    /\ pp_pc' = "done"
    /\ \E copied \in BOOLEAN, sized \in BOOLEAN :
         /\ output_file' = IF copied THEN current_file ELSE output_file
         /\ pp_result' = IF copied /\ sized
                         THEN [success |-> TRUE, error |-> "none"]
                         ELSE [success |-> FALSE, error |-> "exception"]
    /\ UNCHANGED <<pp_is_video, apply_highpass, apply_noise_reduction,
                   apply_normalization, current_file, steps_completed, pp_log>>

NextPp ==
    \/ PpExtract
    \/ PpHighpass
    \/ PpDenoise
    \/ PpNormalize
    \/ PpCopy

-----------------------------------------------------------------------------
(* whisper_transcribe.py : transcribe_audio *)

VARIABLES
    wt_pc,              \* "off" | "local" | "fallback" | "done"
    openai_api_key,     \* os.environ.get('OPENAI_API_KEY') is non-empty
    wt_language,        \* argument language
    wt_model_size,      \* argument model_size
    wt_calls,           \* history: the transcription functions called, in order
    wt_local,           \* result of transcribe_with_faster_whisper
    wt_api,             \* api_result of transcribe_with_openai_api
    wt_result           \* returned dict

wtVars == <<wt_pc, openai_api_key, wt_language, wt_model_size, wt_calls,
            wt_local, wt_api, wt_result>>

MaxTranscribed == 2

WtLanguages == {"en", "es", "auto"}

WtModelSizes == {"tiny", "base"}

NoTranscript == [success |-> FALSE, engine |-> "none", error |-> "none",
                 total_segments |-> 0]

\* lines 75-96, 170-191: the dicts transcribe_with_faster_whisper returns
LocalOutcomes ==
    {[success |-> TRUE, engine |-> "faster-whisper", error |-> "none",
      total_segments |-> n] : n \in 0..MaxTranscribed}
    \cup {[success |-> FALSE, engine |-> "none", error |-> e, total_segments |-> 0] :
            e \in {"not installed", "not found", "convert failed", "exception"}}

\* lines 204-214, 324-341: the dicts transcribe_with_openai_api returns when
\* the key is set
ApiOutcomes ==
    {[success |-> TRUE, engine |-> "openai-whisper-api", error |-> "none",
      total_segments |-> n] : n \in 0..MaxTranscribed}
    \cup {[success |-> FALSE, engine |-> "none", error |-> e, total_segments |-> 0] :
            e \in {"too large", "http", "exception"}}

\* mutant: a successful local result does not end the call
LocalDone_Never(result) == FALSE

\* line 351: "if result.get('success'): return result"
LocalDone(result) == result.success

WtIdle ==
    /\ wt_pc = "off"
    /\ openai_api_key = FALSE
    /\ wt_language = "en"
    /\ wt_model_size = "base"
    /\ wt_calls = <<>>
    /\ wt_local = NoTranscript
    /\ wt_api = NoTranscript
    /\ wt_result = NoTranscript

\* a call of transcribe_audio; line 343
WtInit ==
    /\ wt_pc = "local"
    /\ openai_api_key \in BOOLEAN
    /\ wt_language \in WtLanguages
    /\ wt_model_size \in WtModelSizes
    /\ wt_calls = <<>>
    /\ wt_local = NoTranscript
    /\ wt_api = NoTranscript
    /\ wt_result = NoTranscript

\* lines 348-355: the local model first
WtLocal ==
    /\ wt_pc = "local"
    /\ \E result \in LocalOutcomes :
         /\ wt_local' = result
         /\ wt_calls' = Append(wt_calls, "local")
         /\ IF LocalDone(result)
            THEN /\ wt_pc' = "done"
                 /\ wt_result' = result
            ELSE /\ wt_pc' = "fallback"
                 /\ UNCHANGED wt_result
    /\ UNCHANGED <<openai_api_key, wt_language, wt_model_size, wt_api>>

\* lines 357-364: the cloud API when the key is set, else the local failure
WtFallback ==
    /\ wt_pc = "fallback"
    /\ wt_pc' = "done"
    /\ IF openai_api_key
       THEN \E api_result \in ApiOutcomes :
              /\ wt_api' = api_result
              /\ wt_calls' = Append(wt_calls, "api")
              /\ wt_result' = IF api_result.success THEN api_result ELSE wt_local
       ELSE /\ wt_result' = wt_local
            /\ UNCHANGED <<wt_api, wt_calls>>
    /\ UNCHANGED <<openai_api_key, wt_language, wt_model_size, wt_local>>

NextWt ==
    \/ WtLocal
    \/ WtFallback

-----------------------------------------------------------------------------
(* smart_diarize.py : classify_gender, analyze_segments *)
(* A pitch is the fraction sample_rate / best_lag of analyze_pitch, kept as  *)
(* [num, den]; a confidence is a fraction [num, den] as well.                *)

VARIABLES
    sd_pc,              \* "off" | "load" | "loop" | "finish" | "done"
    sd_segments,        \* segments of the transcription: their durations in ms
    max_samples,        \* argument max_samples
    sd_i,               \* loop index i of "for i, seg in enumerate(segments)"
    enhanced_segments,  \* enhanced_segments
    sampled_results,    \* sampled_results: index i -> gender_result
    sd_log,             \* history: what happened to segment i, in order
    sd_result           \* returned dict: [success, segments]

sdVars == <<sd_pc, sd_segments, max_samples, sd_i, enhanced_segments,
            sampled_results, sd_log, sd_result>>

MaxDiarSegs == 4

\* values of max_samples tried (the default is 50)
SampleLimits == {1, 2}

\* end - start of a segment: below and above the 0.3 s of line 181
DiarDurations == {200, 1000}

\* extract_audio_segment runs ffmpeg with "-ar 16000"
SAMPLE_RATE == 16000

\* best_lag values of analyze_pitch (lines 66-91): range(min_lag, ...) with
\* min_lag = 40 and max_lag = 320
PitchLags == {40, 86, 87, 98, 99, 115, 319}

Ratio(n, d) == [num |-> n, den |-> d]

NoPitch == Ratio(0, 1)

\* lines 94-99: f0 = sample_rate / best_lag, None outside 50..400 Hz
PitchOfLag(lag) ==
    IF 50 * lag <= SAMPLE_RATE /\ SAMPLE_RATE <= 400 * lag
    THEN Ratio(SAMPLE_RATE, lag)
    ELSE NoPitch

\* what analyze_pitch can return: None, or the pitch of a lag
PitchOutcomes == {NoPitch} \cup {PitchOfLag(lag) : lag \in PitchLags}

\* min(1.0, x) of a fraction
AtMostOne(r) == IF r.num > r.den THEN Ratio(1, 1) ELSE r

\* round(n / d, k) for n >= 0, in units of 10^-k when scale = 10^k
RoundTo(n, d, scale) == (2 * scale * n + d) \div (2 * d)

\* lines 105-132: classify_gender
classify_gender(pitch_hz) ==
    LET p == pitch_hz.num
        l == pitch_hz.den
        tenths == RoundTo(p, l, 10)
        male_score == Ratio(185 * l - p, 45 * l)
        female_score == Ratio(p - 140 * l, 45 * l)
    IN  IF pitch_hz = NoPitch
        THEN [gender |-> "unknown", confidence |-> Ratio(0, 1), pitch |-> 0]
        ELSE IF p < 140 * l
        THEN [gender |-> "male",
              confidence |-> AtMostOne(Ratio(2 * (140 * l - p) + 55 * l, 110 * l)),
              pitch |-> tenths]
        ELSE IF p > 185 * l
        THEN [gender |-> "female",
              confidence |-> AtMostOne(Ratio(2 * (p - 185 * l) + 70 * l, 140 * l)),
              pitch |-> tenths]
        ELSE IF male_score.num > female_score.num
        THEN [gender |-> "male",
              confidence |-> Ratio(RoundTo(7 * male_score.num, 10 * male_score.den, 100), 100),
              pitch |-> tenths]
        ELSE [gender |-> "female",
              confidence |-> Ratio(RoundTo(7 * female_score.num, 10 * female_score.den, 100), 100),
              pitch |-> tenths]

\* lines 161-170: is index i (from 0) one of sample_indices
InSample(i, total_segments, limit) ==
    IF total_segments > limit
    THEN i % (total_segments \div limit) = 0
    ELSE TRUE

\* lines 182-188, 205-211: a segment that is too short or could not be extracted
UnknownSegment ==
    [speaker_id |-> 0, detected_gender |-> "unknown",
     gender_confidence |-> Ratio(0, 1), pitch_hz |-> 0]

\* lines 193-199: a segment outside the sample
PendingSegment ==
    [speaker_id |-> 0, detected_gender |-> "pending",
     gender_confidence |-> Ratio(0, 1), pitch_hz |-> 0]

\* lines 224-230: a segment that was analysed; speaker_id is set at the end
AnalysedSegment(gender_result) ==
    [speaker_id |-> 0, detected_gender |-> gender_result.gender,
     gender_confidence |-> gender_result.confidence,
     pitch_hz |-> gender_result.pitch]

\* line 248: min(sorted_sample_indices, key=lambda x: abs(x - i)), the first
\* of the nearest in ascending order
NearestIndex(keys, i) ==
    CHOOSE x \in keys :
        \A y \in keys : Abs(x - i) < Abs(y - i) \/ (Abs(x - i) = Abs(y - i) /\ x <= y)

\* lines 243-252: propagate the sampled results to the pending segments
Propagate(segs, sampled) ==
    IF DOMAIN sampled = {}
    THEN segs
    ELSE [k \in 1..Len(segs) |->
            IF segs[k].detected_gender = "pending"
            THEN LET nearest_result == sampled[NearestIndex(DOMAIN sampled, k - 1)]
                 IN  [segs[k] EXCEPT
                        !.detected_gender = nearest_result.gender,
                        !.gender_confidence = Ratio(4 * nearest_result.confidence.num,
                                                    5 * nearest_result.confidence.den),
                        !.pitch_hz = 0]
            ELSE segs[k]]

\* lines 269-275: the speaker of one segment
SpeakerOf(gender, current_speaker) ==
    IF gender = "male" THEN 0
    ELSE IF gender = "female" THEN 1
    ELSE current_speaker

RECURSIVE AssignSpeakers(_, _)
\* lines 260-279: speaker ids from the genders, in order
AssignSpeakers(segs, current_speaker) ==
    IF segs = <<>>
    THEN <<>>
    ELSE LET id == SpeakerOf(Head(segs).detected_gender, current_speaker)
             next_speaker == IF Head(segs).detected_gender \in {"male", "female"}
                             THEN id ELSE current_speaker
         IN  <<[Head(segs) EXCEPT !.speaker_id = id]>>
             \o AssignSpeakers(Tail(segs), next_speaker)

SdIdle ==
    /\ sd_pc = "off"
    /\ sd_segments = <<>>
    /\ max_samples = 1
    /\ sd_i = 0
    /\ enhanced_segments = <<>>
    /\ sampled_results = <<>>
    /\ sd_log = <<>>
    /\ sd_result = [success |-> FALSE, segments |-> <<>>]

\* a call of analyze_segments; line 134
SdInit ==
    /\ sd_pc = "load"
    /\ \E n \in 0..MaxDiarSegs : sd_segments \in [1..n -> DiarDurations]
    /\ max_samples \in SampleLimits
    /\ sd_i = 0
    /\ enhanced_segments = <<>>
    /\ sampled_results = <<>>
    /\ sd_log = <<>>
    /\ sd_result = [success |-> FALSE, segments |-> <<>>]

\* lines 148-154: "if not segments: return success False"
SdLoad ==
    /\ sd_pc = "load"
    /\ sd_pc' = IF sd_segments = <<>> THEN "done" ELSE "loop"
    /\ UNCHANGED <<sd_segments, max_samples, sd_i, enhanced_segments,
                   sampled_results, sd_log, sd_result>>

\* lines 175-240: one iteration of the loop over the segments
SdAnalyze ==
    /\ sd_pc = "loop"
    /\ sd_i < Len(sd_segments)
    /\ sd_i' = sd_i + 1
    /\ sd_pc' = IF sd_i + 1 = Len(sd_segments) THEN "finish" ELSE "loop"
    /\ IF sd_segments[sd_i + 1] < 300
       THEN /\ enhanced_segments' = Append(enhanced_segments, UnknownSegment)
            /\ sd_log' = Append(sd_log, "short")
            /\ UNCHANGED sampled_results
       ELSE IF ~InSample(sd_i, Len(sd_segments), max_samples)
       THEN /\ enhanced_segments' = Append(enhanced_segments, PendingSegment)
            /\ sd_log' = Append(sd_log, "not sampled")
            /\ UNCHANGED sampled_results
       ELSE \E extracted \in BOOLEAN, pitch \in PitchOutcomes :
              IF ~extracted
              THEN /\ pitch = NoPitch
                   /\ enhanced_segments' = Append(enhanced_segments, UnknownSegment)
                   /\ sd_log' = Append(sd_log, "extraction failed")
                   /\ UNCHANGED sampled_results
              ELSE LET gender_result == classify_gender(pitch)
                   IN  /\ sampled_results' = (sd_i :> gender_result) @@ sampled_results
                       /\ enhanced_segments' =
                            Append(enhanced_segments, AnalysedSegment(gender_result))
                       /\ sd_log' = Append(sd_log, IF pitch = NoPitch THEN "no pitch"
                                                   ELSE "pitch")
    /\ UNCHANGED <<sd_segments, max_samples, sd_result>>

\* lines 242-299: propagate, assign the speakers, return
SdFinish ==
    /\ sd_pc = "finish"
    /\ sd_pc' = "done"
    /\ enhanced_segments' =
         AssignSpeakers(Propagate(enhanced_segments, sampled_results), 0)
    /\ sd_result' = [success |-> TRUE, segments |-> enhanced_segments']
    /\ UNCHANGED <<sd_segments, max_samples, sd_i, sampled_results, sd_log>>

NextSd ==
    \/ SdLoad
    \/ SdAnalyze
    \/ SdFinish

-----------------------------------------------------------------------------
(* Command-line entry points of the stages: main() of each script *)

VARIABLES
    main_pc,            \* "off" | "start" | "called" | "exited"
    main_command,       \* the stage command run
    main_checks_ok,     \* argument count and input files pass the checks of main
    main_write_ok,      \* writing the output file, where main writes one, succeeds
    main_result,        \* result of the stage function, NoMainResult before the call
    main_written,       \* main wrote the output file
    exit_code           \* process exit status, -1 while running

mainVars == <<main_pc, main_command, main_checks_ok, main_write_ok, main_result,
              main_written, exit_code>>

MaxMainSegs == 2

StageCommands ==
    {"preprocess", "whisper_transcribe", "analyze", "translate-timed",
     "generate-segments", "assemble", "mix"}

NoMainResult == [success |-> FALSE, error |-> "not called", total_segments |-> 0]

\* the dicts a stage function returns, as far as main reads them
MainOutcomes ==
    {[success |-> TRUE, error |-> "none", total_segments |-> n] : n \in 0..MaxMainSegs}
    \cup {[success |-> FALSE, error |-> e, total_segments |-> 0] :
            e \in {"no segments", "stage failed", "exception"}}

\* sys.exit(0 if result["success"] else 1)
ExitBySuccess(result) == IF result.success THEN 0 ELSE 1

MainIdle ==
    /\ main_pc = "off"
    /\ main_command = "none"
    /\ main_checks_ok = FALSE
    /\ main_write_ok = FALSE
    /\ main_result = NoMainResult
    /\ main_written = FALSE
    /\ exit_code = -1

MainInit ==
    /\ main_pc = "start"
    /\ main_command \in StageCommands
    /\ main_checks_ok \in BOOLEAN
    /\ main_write_ok \in BOOLEAN
    /\ main_result = NoMainResult
    /\ main_written = FALSE
    /\ exit_code = -1

\* the checks every main makes before the stage function (usage, input file
\* present, segments found: sys.exit(1)), then the call of the stage function
MainCall ==
    /\ main_pc = "start"
    /\ IF main_checks_ok
       THEN /\ main_pc' = "called"
            /\ main_result' \in MainOutcomes
            /\ UNCHANGED exit_code
       ELSE /\ main_pc' = "exited"
            /\ exit_code' = 1
            /\ UNCHANGED main_result
    /\ UNCHANGED <<main_command, main_checks_ok, main_write_ok, main_written>>

\* the end of a main that exits with 0 if result["success"] else 1 and
\* writes no file of its own
MainExitBySuccess(command) ==
    /\ main_pc = "called"
    /\ main_command = command
    /\ main_pc' = "exited"
    /\ exit_code' = ExitBySuccess(main_result)
    /\ UNCHANGED <<main_command, main_checks_ok, main_write_ok, main_result,
                   main_written>>

\* audio_preprocess.py lines 219-221
MainPreprocess == MainExitBySuccess("preprocess")

\* edge_tts_dub.py lines 864-867
MainGenerateSegments == MainExitBySuccess("generate-segments")

\* segment_assembler.py lines 294-297
MainAssemble == MainExitBySuccess("assemble")

\* professional_mixer.py lines 372-381; an exception of professional_mix is
\* an outcome with success false here
MainMix == MainExitBySuccess("mix")

\* whisper_transcribe.py lines 397-438: write the transcript on success and
\* exit 0, exit 1 when the write fails or the result is a failure
MainWhisper ==
    /\ main_pc = "called"
    /\ main_command = "whisper_transcribe"
    /\ main_pc' = "exited"
    /\ main_written' = main_write_ok
    /\ exit_code' = IF main_result.success /\ main_write_ok THEN 0 ELSE 1
    /\ UNCHANGED <<main_command, main_checks_ok, main_write_ok, main_result>>

\* smart_diarize.py lines 384-391: write the result, print the summary and
\* return from main; an exception of open() or json.dump ends the process
\* with status 1
MainDiarize ==
    /\ main_pc = "called"
    /\ main_command = "analyze"
    /\ main_pc' = "exited"
    /\ main_written' = main_write_ok
    /\ exit_code' = IF main_write_ok THEN 0 ELSE 1
    /\ UNCHANGED <<main_command, main_checks_ok, main_write_ok, main_result>>

\* translate.py lines 651-660: write the segments on success, exit by success
MainTranslateTimed ==
    /\ main_pc = "called"
    /\ main_command = "translate-timed"
    /\ main_pc' = "exited"
    /\ main_written' = (main_result.success /\ main_write_ok)
    /\ exit_code' = IF main_result.success /\ ~main_write_ok THEN 1
                    ELSE ExitBySuccess(main_result)
    /\ UNCHANGED <<main_command, main_checks_ok, main_write_ok, main_result>>

NextMain ==
    \/ MainCall
    \/ MainPreprocess
    \/ MainWhisper
    \/ MainDiarize
    \/ MainTranslateTimed
    \/ MainGenerateSegments
    \/ MainAssemble
    \/ MainMix

-----------------------------------------------------------------------------
(* time_stretcher.py : time_stretch_audio, time_stretch_audio_ffmpeg;        *)
(* segment_assembler.py : adjust_segment_speed, seen by the ratio it applies *)
(* Ratios are fractions [num, den].                                          *)

VARIABLES
    st_pc,          \* "off" | "call" | "done"
    st_has_rb,      \* HAS_RUBBERBAND of the module
    st_current,     \* duration of the input clip, ms
    st_target,      \* target_duration, ms
    st_limits,      \* arguments <<min_stretch, max_stretch>> of time_stretch_audio
    st_result       \* what the call returned, with the ratio given to the primitive

stVars == <<st_pc, st_has_rb, st_current, st_target, st_limits, st_result>>

StretchCurrents == {0, 1000, 1400, 2000, 3000, 6000}

StretchTargets == {0, 1000, 2000}

\* defaults of time_stretch_audio (lines 91-92) and the limits stretch_segments
\* passes (lines 219-220)
StretchLimits == {<<Ratio(7, 10), Ratio(3, 2)>>, <<Ratio(3, 4), Ratio(13, 10)>>}

RatioLess(a, b) == a.num * b.den < b.num * a.den

\* max(lo, min(hi, r))
ClampRatio(r, lo, hi) ==
    IF RatioLess(hi, r) THEN (IF RatioLess(hi, lo) THEN lo ELSE hi)
    ELSE IF RatioLess(r, lo) THEN lo
    ELSE r

NoStretch ==
    [success |-> FALSE, method |-> "none", applied |-> Ratio(0, 1),
     was_clamped |-> "absent", function |-> "none"]

StretchFailure(function) ==
    [success |-> FALSE, method |-> "none", applied |-> Ratio(0, 1),
     was_clamped |-> "absent", function |-> function]

\* time_stretcher.py lines 43-85: atempo with speed_factor = current / target
\* clamped to [min_stretch, max_stretch]; the dict has no was_clamped key
time_stretch_audio_ffmpeg(current, target, min_stretch, max_stretch, ran) ==
    IF current <= 0 \/ target <= 0 \/ ~ran
    THEN StretchFailure("time_stretch_audio")
    ELSE [success |-> TRUE, method |-> "ffmpeg_atempo",
          applied |-> ClampRatio(Ratio(current, target), min_stretch, max_stretch),
          was_clamped |-> "absent", function |-> "time_stretch_audio"]

\* time_stretcher.py lines 87-173: stretch_ratio = target / current clamped to
\* [min_stretch, max_stretch]; without rubberband the same limits are handed
\* to the ffmpeg function (line 112)
time_stretch_audio(has_rb, current, target, min_stretch, max_stretch, raised, ran) ==
    IF ~has_rb
    THEN time_stretch_audio_ffmpeg(current, target, min_stretch, max_stretch, ran)
    ELSE IF raised \/ current = 0
    THEN StretchFailure("time_stretch_audio")
    ELSE LET original_ratio == Ratio(target, current)
             stretch_ratio == ClampRatio(original_ratio, min_stretch, max_stretch)
         IN  [success |-> TRUE, method |-> "rubberband",
              applied |-> stretch_ratio,
              was_clamped |-> IF RatioLess(original_ratio, stretch_ratio)
                                 \/ RatioLess(stretch_ratio, original_ratio)
                              THEN "True" ELSE "False",
              function |-> "time_stretch_audio"]

\* segment_assembler.py lines 104-105
SpeedFactor(current, target) ==
    ClampRatio(Ratio(current, target), Ratio(1, 2), Ratio(2, 1))

\* segment_assembler.py lines 66-67
StretchRatio(current, target) ==
    ClampRatio(Ratio(target, current), Ratio(7, 10), Ratio(3, 2))

\* segment_assembler.py lines 45-120: adjust_segment_speed returns a bool;
\* method and applied tell which primitive ran and with what ratio
AdjustSegmentSpeedSeen(has_rb, current, target, raised, conv) ==
    IF ~AdjustSegmentSpeed(has_rb, current, target, raised, conv).ok
    THEN StretchFailure("adjust_segment_speed")
    ELSE IF has_rb /\ ~raised
    THEN [success |-> TRUE, method |-> "rubberband",
          applied |-> StretchRatio(current, target),
          was_clamped |-> "absent", function |-> "adjust_segment_speed"]
    ELSE [success |-> TRUE, method |-> "ffmpeg_atempo",
          applied |-> SpeedFactor(current, target),
          was_clamped |-> "absent", function |-> "adjust_segment_speed"]

StIdle ==
    /\ st_pc = "off"
    /\ st_has_rb = FALSE
    /\ st_current = 0
    /\ st_target = 0
    /\ st_limits = <<Ratio(7, 10), Ratio(3, 2)>>
    /\ st_result = NoStretch

StInit ==
    /\ st_pc = "call"
    /\ st_has_rb \in BOOLEAN
    /\ st_current \in StretchCurrents
    /\ st_target \in StretchTargets
    /\ st_limits \in StretchLimits
    /\ st_result = NoStretch

\* a call of time_stretch_audio
StTimeStretchAudio ==
    /\ st_pc = "call"
    /\ st_pc' = "done"
    /\ \E raised \in BOOLEAN, ran \in BOOLEAN :
         st_result' = time_stretch_audio(st_has_rb, st_current, st_target,
                                         st_limits[1], st_limits[2], raised, ran)
    /\ UNCHANGED <<st_has_rb, st_current, st_target, st_limits>>

\* a call of adjust_segment_speed
StAdjustSegmentSpeed ==
    /\ st_pc = "call"
    /\ st_pc' = "done"
    /\ \E raised \in BOOLEAN, conv \in BOOLEAN :
         st_result' = AdjustSegmentSpeedSeen(st_has_rb, st_current, st_target,
                                             raised, conv)
    /\ UNCHANGED <<st_has_rb, st_current, st_target, st_limits>>

NextSt ==
    \/ StTimeStretchAudio
    \/ StAdjustSegmentSpeed

-----------------------------------------------------------------------------
(* professional_mixer.py : professional_mix *)
(* Levels are whole dB / LUFS, the background volume is in percent.          *)

VARIABLES
    mx_pc,              \* "off" | "idle" | "reverb" | "mix"
    mx_settings,        \* settings but background_level: apply_reverb, dubbed_level, output_format
    mx_dub_lufs,        \* input_i that analyze_loudness reports for the dubbed audio
    background_level,   \* settings.get("background_level", -24) of the running call
    dub_adjust,         \* dub_adjust of the running call
    processed_dubbed,   \* "dubbed_audio" | "reverbed.wav": second input of the mix
    mx_reverb,          \* what the reverb primitive did: "none" | "ok" | "nonzero" | "timeout" | "exception"
    mx_mixed,           \* the final mix command: "none" | "ok" | "failed"
    mx_filter,          \* filter_complex of the mix command: [bg_volume, dub_adjust]
    mx_result,          \* returned dict: [success, error]
    mx_applied,         \* history: <<background_level, bg_volume>> of every mix command run
    mx_calls            \* number of professional_mix calls begun

mxVars == <<mx_pc, mx_settings, mx_dub_lufs, background_level, dub_adjust,
            processed_dubbed, mx_reverb, mx_mixed, mx_filter, mx_result,
            mx_applied, mx_calls>>

MaxMixCalls == 2

BG_VOLUME_PCT == 18              \* bg_volume = 0.18 and "volume=0.18", lines 193, 229, 238
DEFAULT_BACKGROUND_LEVEL == -24  \* line 174
DUB_ADJUST_LIMIT == 20           \* line 198

BackgroundLevels == {DEFAULT_BACKGROUND_LEVEL, -12, -30}

MixSettings ==
    [apply_reverb : BOOLEAN, dubbed_level : {-14}, output_format : {"aac", "mp3"}]

DubLufs == {-40, -23, -16, 10}

NoFilter == [bg_volume |-> 0, dub_adjust |-> 0]

\* lines 197-198
DubAdjust(dubbed_level, dub_lufs) ==
    Max(-DUB_ADJUST_LIMIT, Min(DUB_ADJUST_LIMIT, dubbed_level - dub_lufs))

\* lines 193, 229, 238: the volume of the original track in filter_complex
BackgroundVolume(level) == BG_VOLUME_PCT

\* lines 124-129 raise on a timeout or a missing ffmpeg, and the exception is
\* caught by the except of professional_mix (line 291)
ReverbAborts(outcome) == outcome \in {"timeout", "exception"}

MxIdle ==
    /\ mx_pc = "off"
    /\ mx_settings = [apply_reverb |-> FALSE, dubbed_level |-> 0, output_format |-> "none"]
    /\ mx_dub_lufs = 0
    /\ background_level = 0
    /\ dub_adjust = 0
    /\ processed_dubbed = "none"
    /\ mx_reverb = "none"
    /\ mx_mixed = "none"
    /\ mx_filter = NoFilter
    /\ mx_result = NoResult
    /\ mx_applied = {}
    /\ mx_calls = 0

\* a process about to call professional_mix on one pair of tracks
MxInit ==
    /\ mx_pc = "idle"
    /\ mx_settings \in MixSettings
    /\ mx_dub_lufs \in DubLufs
    /\ background_level = 0
    /\ dub_adjust = 0
    /\ processed_dubbed = "none"
    /\ mx_reverb = "none"
    /\ mx_mixed = "none"
    /\ mx_filter = NoFilter
    /\ mx_result = NoResult
    /\ mx_applied = {}
    /\ mx_calls = 0

\* lines 170-206: read the settings, analyse the loudness
MxCall ==
    /\ mx_pc = "idle"
    /\ mx_calls < MaxMixCalls
    /\ mx_calls' = mx_calls + 1
    /\ background_level' \in BackgroundLevels
    /\ dub_adjust' = DubAdjust(mx_settings.dubbed_level, mx_dub_lufs)
    /\ processed_dubbed' = "dubbed_audio"
    /\ mx_reverb' = "none"
    /\ mx_mixed' = "none"
    /\ mx_filter' = NoFilter
    /\ mx_result' = NoResult
    /\ mx_pc' = "reverb"
    /\ UNCHANGED <<mx_settings, mx_dub_lufs, mx_applied>>

\* lines 208-220: reverb matching, when enabled
MxReverb ==
    /\ mx_pc = "reverb"
    /\ IF mx_settings.apply_reverb
       THEN \E outcome \in {"ok", "nonzero", "timeout", "exception"} :
              /\ mx_reverb' = outcome
              /\ IF ReverbAborts(outcome)
                 THEN /\ mx_pc' = "idle"
                      /\ mx_result' = [success |-> FALSE, error |-> "exception"]
                      /\ UNCHANGED processed_dubbed
                 ELSE /\ mx_pc' = "mix"
                      /\ processed_dubbed' = IF outcome = "ok" THEN "reverbed.wav"
                                             ELSE "dubbed_audio"
                      /\ UNCHANGED mx_result
       ELSE /\ mx_pc' = "mix"
            /\ UNCHANGED <<mx_reverb, processed_dubbed, mx_result>>
    /\ UNCHANGED <<mx_settings, mx_dub_lufs, background_level, dub_adjust, mx_mixed,
                   mx_filter, mx_applied, mx_calls>>

\* lines 226-289: build the filter, run the mix command, return
MxMix ==
    /\ mx_pc = "mix"
    /\ mx_pc' = "idle"
    /\ mx_filter' = [bg_volume |-> BackgroundVolume(background_level),
                     dub_adjust |-> dub_adjust]
    /\ mx_applied' = mx_applied \cup {<<background_level, mx_filter'.bg_volume>>}
    /\ \E returncode_ok \in BOOLEAN :
         /\ mx_mixed' = IF returncode_ok THEN "ok" ELSE "failed"
         /\ mx_result' = IF returncode_ok THEN [success |-> TRUE, error |-> "none"]
                         ELSE [success |-> FALSE, error |-> "Mixing failed"]
    /\ UNCHANGED <<mx_settings, mx_dub_lufs, background_level, dub_adjust,
                   processed_dubbed, mx_reverb, mx_calls>>

NextMx ==
    \/ MxCall
    \/ MxReverb
    \/ MxMix

-----------------------------------------------------------------------------
(* translate.py : main translate-timed, handing its output file over to      *)
(* edge_tts_dub.py : generate_segments_audio                                 *)
(* A JSON file is [form, segments]: form tells whether the top-level value   *)
(* is an object with a "segments" key or a bare list.  A text is its id, 0   *)
(* when blank; an optional value is <<>> (None) or <<v>>.                    *)

VARIABLES
    ho_pc,          \* "off" | "translate" | "generate" | "done"
    ho_input,       \* the segments file given to translate-timed
    ho_file,        \* the output_json file of translate-timed
    ho_exit,        \* exit code of translate-timed, -1 while running
    ho_source,      \* which file generate_segments_audio was given
    ho_loaded       \* what generate_segments_audio returned, with the target durations it read

hoVars == <<ho_pc, ho_input, ho_file, ho_exit, ho_source, ho_loaded>>

MaxHoSegs == 2

NoJsonFile == [form |-> "none", segments |-> <<>>]

NoLoaded == [success |-> FALSE, error |-> "not called", target_durations |-> <<>>]

\* segments as whisper_transcribe.py writes them: id, start, end, duration, text
HoSegments(n, blank, long) ==
    [i \in 1..n |-> [id |-> i - 1,
                     start |-> 1000 * i,
                     end |-> 1000 * i + (IF i \in long THEN 900 ELSE 400),
                     duration |-> IF i \in long THEN 900 ELSE 400,
                     text |-> IF i \in blank THEN 0 ELSE i]]

\* the translation of the text with id t: another text
TranslationOf(t) == t + 100

\* translate.py 484-557 when every batch succeeded: result["segments"]
TranslatedSegments(segments) ==
    LET txts == TextsOf(segments)
    IN  BuildTranslated(segments, [k \in 1..Len(txts) |-> TranslationOf(txts[k])], 1)

\* edge_tts_dub.py 432: segment.get("duration", None)
TargetDuration(segment) ==
    IF "duration" \in DOMAIN segment THEN <<segment.duration>> ELSE <<>>

\* edge_tts_dub.py 414-432, 459-460: open the file, data.get("segments", []),
\* the target duration of every segment
LoadSegments(file) ==
    CASE file.form = "none" ->
           [success |-> FALSE, error |-> "No such file", target_durations |-> <<>>]
      [] file.form = "list" ->
           [success |-> FALSE, error |-> "'list' object has no attribute 'get'",
            target_durations |-> <<>>]
      [] file.form = "object" /\ file.segments = <<>> ->
           [success |-> FALSE, error |-> "No segments found in file",
            target_durations |-> <<>>]
      [] OTHER ->
           [success |-> TRUE, error |-> "none",
            target_durations |->
                [k \in 1..Len(file.segments) |-> TargetDuration(file.segments[k])]]

HoIdle ==
    /\ ho_pc = "off"
    /\ ho_input = NoJsonFile
    /\ ho_file = NoJsonFile
    /\ ho_exit = -1
    /\ ho_source = "none"
    /\ ho_loaded = NoLoaded

\* a transcription file on disk, translate-timed about to run on it
HoInit ==
    /\ ho_pc = "translate"
    /\ \E n \in 0..MaxHoSegs, form \in {"object", "list"} :
         \E blank \in SUBSET (1..n), long \in SUBSET (1..n) :
            ho_input = [form |-> form, segments |-> HoSegments(n, blank, long)]
    /\ ho_file = NoJsonFile
    /\ ho_exit = -1
    /\ ho_source = "none"
    /\ ho_loaded = NoLoaded

\* translate.py 629-660
HoTranslateTimed ==
    /\ ho_pc = "translate"
    /\ ho_pc' = "generate"
    /\ IF ho_input.segments = <<>>
       THEN /\ ho_exit' = 1
            /\ UNCHANGED ho_file
       ELSE \E success \in BOOLEAN :
              IF success
              THEN /\ ho_file' = [form |-> "list",
                                  segments |-> TranslatedSegments(ho_input.segments)]
                   /\ ho_exit' = 0
              ELSE /\ ho_exit' = 1
                   /\ UNCHANGED ho_file
    /\ UNCHANGED <<ho_input, ho_source, ho_loaded>>

\* edge_tts_dub.py 401-460, on the translated file or on the transcription
HoGenerateSegments ==
    /\ ho_pc = "generate"
    /\ ho_pc' = "done"
    /\ \E source \in {"translated", "transcription"} :
         LET file == IF source = "translated" THEN ho_file ELSE ho_input
             loaded == LoadSegments(file)
         IN  /\ ho_source' = source
             /\ source = "transcription" => file.form = "object"
             /\ IF loaded.success
                THEN \E n_failed \in 0..Len(file.segments) :
                       ho_loaded' = [loaded EXCEPT
                                       !.success = 5 * n_failed < Len(file.segments)]
                ELSE ho_loaded' = loaded
    /\ UNCHANGED <<ho_input, ho_file, ho_exit>>

NextHo ==
    \/ HoTranslateTimed
    \/ HoGenerateSegments

-----------------------------------------------------------------------------
(* translate.py : translate_text, and the provider of translate_segments    *)
(* Provider "deepl" is translate_with_deepl, provider "openai" is            *)
(* translate_with_openai or the chat-completions request of                  *)
(* translate_segments.                                                       *)

VARIABLES
    tx_pc,          \* "off" | "idle" | "deepl" | "openai" | "segments"
    deepl_key,      \* environment: DEEPL_API_KEY is set
    openai_key,     \* environment: an OpenAI / AI integration key is set
    tx_function,    \* "translate_text" | "translate_segments"
    tx_engine,      \* argument engine of translate_text
    tx_attempt,     \* attempt of the loop of translate_segments
    tx_log,         \* history of the running call: [provider, sent, success] per provider call
    tx_result,      \* returned dict: [success, engine]
    tx_calls        \* number of calls begun

txVars == <<tx_pc, deepl_key, openai_key, tx_function, tx_engine, tx_attempt,
            tx_log, tx_result, tx_calls>>

MaxTxCalls == 3

Engines == {"auto", "deepl", "openai"}

NoTxResult == [success |-> FALSE, engine |-> "none"]

\* lines 126-218: translate_with_deepl, [success, fallback, sent]
DeeplOutcomes(has_key) ==
    IF ~has_key
    THEN {[success |-> FALSE, fallback |-> TRUE, sent |-> FALSE]}
    ELSE {[success |-> TRUE, fallback |-> FALSE, sent |-> TRUE],
          [success |-> FALSE, fallback |-> TRUE, sent |-> TRUE]}

\* lines 221-307: translate_with_openai, [success, sent]
OpenaiOutcomes(has_key) ==
    IF ~has_key
    THEN {[success |-> FALSE, sent |-> FALSE]}
    ELSE {[success |-> TRUE, sent |-> TRUE], [success |-> FALSE, sent |-> TRUE]}

\* lines 332-343: does translate_text go on to OpenAI after DeepL
FallsBack(engine, deepl_result) ==
    engine = "auto" /\ ~deepl_result.success /\ deepl_result.fallback

TxIdle ==
    /\ tx_pc = "off"
    /\ deepl_key = FALSE
    /\ openai_key = FALSE
    /\ tx_function = "none"
    /\ tx_engine = "none"
    /\ tx_attempt = 0
    /\ tx_log = <<>>
    /\ tx_result = NoTxResult
    /\ tx_calls = 0

TxInit ==
    /\ tx_pc = "idle"
    /\ deepl_key \in BOOLEAN
    /\ openai_key \in BOOLEAN
    /\ tx_function = "none"
    /\ tx_engine = "none"
    /\ tx_attempt = 0
    /\ tx_log = <<>>
    /\ tx_result = NoTxResult
    /\ tx_calls = 0

\* lines 310-330: translate_text is called
TxTranslateText ==
    /\ tx_pc = "idle"
    /\ tx_calls < MaxTxCalls
    /\ tx_calls' = tx_calls + 1
    /\ tx_function' = "translate_text"
    /\ tx_engine' \in Engines
    /\ tx_pc' = IF tx_engine' = "openai" THEN "openai" ELSE "deepl"
    /\ tx_log' = <<>>
    /\ tx_result' = NoTxResult
    /\ tx_attempt' = 0
    /\ UNCHANGED <<deepl_key, openai_key>>

\* lines 326, 330-336, 343: the call of translate_with_deepl
TxDeepl ==
    /\ tx_pc = "deepl"
    /\ \E r \in DeeplOutcomes(deepl_key) :
         /\ tx_log' = Append(tx_log, [provider |-> "deepl", sent |-> r.sent,
                                      success |-> r.success])
         /\ IF FallsBack(tx_engine, r)
            THEN /\ tx_pc' = "openai"
                 /\ UNCHANGED tx_result
            ELSE /\ tx_pc' = "idle"
                 /\ tx_result' = [success |-> r.success,
                                  engine |-> IF r.success THEN "deepl" ELSE "none"]
    /\ UNCHANGED <<deepl_key, openai_key, tx_function, tx_engine, tx_attempt, tx_calls>>

\* lines 328, 338-341: the call of translate_with_openai
TxOpenai ==
    /\ tx_pc = "openai"
    /\ tx_pc' = "idle"
    /\ \E r \in OpenaiOutcomes(openai_key) :
         /\ tx_log' = Append(tx_log, [provider |-> "openai", sent |-> r.sent,
                                      success |-> r.success])
         /\ tx_result' = [success |-> r.success,
                          engine |-> IF ~r.success THEN "none"
                                     ELSE IF tx_engine = "auto" THEN "openai (fallback)"
                                     ELSE "openai"]
    /\ UNCHANGED <<deepl_key, openai_key, tx_function, tx_engine, tx_attempt, tx_calls>>

\* lines 346-372, translate_segments as translate_timed_segments calls it
\* for one batch: the credentials check
TxTranslateSegments ==
    /\ tx_pc = "idle"
    /\ tx_calls < MaxTxCalls
    /\ tx_calls' = tx_calls + 1
    /\ tx_function' = "translate_segments"
    /\ tx_engine' = "none"
    /\ tx_attempt' = 0
    /\ tx_log' = <<>>
    /\ tx_result' = NoTxResult
    /\ tx_pc' = IF openai_key THEN "segments" ELSE "idle"
    /\ UNCHANGED <<deepl_key, openai_key>>

\* lines 413-466: one attempt of the request loop of translate_segments
TxSegmentsAttempt ==
    /\ tx_pc = "segments"
    /\ tx_attempt < TS_MAX_RETRIES
    /\ tx_attempt' = tx_attempt + 1
    /\ \E outcome \in {"ok", "retryable", "fatal"} :
         /\ tx_log' = Append(tx_log, [provider |-> "openai", sent |-> TRUE,
                                      success |-> outcome = "ok"])
         /\ tx_result' = [success |-> outcome = "ok",
                          engine |-> IF outcome = "ok" THEN "openai" ELSE "none"]
         /\ tx_pc' = IF outcome = "retryable" /\ tx_attempt + 1 < TS_MAX_RETRIES
                     THEN "segments" ELSE "idle"
    /\ UNCHANGED <<deepl_key, openai_key, tx_function, tx_engine, tx_calls>>

NextTx ==
    \/ TxTranslateText
    \/ TxDeepl
    \/ TxOpenai
    \/ TxTranslateSegments
    \/ TxSegmentsAttempt

-----------------------------------------------------------------------------
(* edge_tts_dub.py : get_voice ; elevenlabs_tts.py : get_voice_id *)
(* Language codes are sequences of characters; a lookup returns             *)
(* [raised, voice], raised when the code raises KeyError.                    *)

VARIABLES
    vl_pc,          \* "off" | "idle" | "done"
    vl_language,    \* argument language_code / language
    vl_gender,      \* argument gender
    vl_style,       \* argument style (get_voice_id only)
    vl_function,    \* which function was called
    vl_result       \* [raised, voice]

vlVars == <<vl_pc, vl_language, vl_gender, vl_style, vl_function, vl_result>>

\* edge_tts_dub.py VOICE_MAP, lines 27-138 (the entries of "fr", "fr-CA", "en")
EDGE_VOICE_MAP ==
    (<<"f", "r">> :> [male |-> "fr-FR-HenriNeural", female |-> "fr-FR-DeniseNeural"])
    @@ (<<"f", "r", "-", "C", "A">> :>
            [male |-> "fr-CA-AntoineNeural", female |-> "fr-CA-SylvieNeural"])
    @@ (<<"e", "n">> :> [male |-> "en-US-GuyNeural", female |-> "en-US-JennyNeural"])

\* elevenlabs_tts.py LANGUAGE_VOICES, lines 34-45 (the entries of "fr", "en")
LANGUAGE_VOICES ==
    (<<"f", "r">> :> [male |-> "pNInz6obpgDQGcFmaJgB", female |-> "EXAVITQu4vr4xnSDxMaL"])
    @@ (<<"e", "n">> :> [male |-> "pNInz6obpgDQGcFmaJgB", female |-> "EXAVITQu4vr4xnSDxMaL"])

\* elevenlabs_tts.py VOICE_MAP, lines 18-31 (styles "default" and "young")
ELEVEN_VOICE_MAP ==
    [male |-> ("default" :> "pNInz6obpgDQGcFmaJgB") @@ ("young" :> "TxGEqnHWrfWFTfGW9XjX"),
     female |-> ("default" :> "EXAVITQu4vr4xnSDxMaL") @@ ("young" :> "21m00Tcm4TlvDq8ikWAM")]

VlLanguages ==
    {<<"f", "r">>, <<"F", "R", "-", "C", "A">>, <<"x", "x">>, <<"x", "x", "-", "F", "R">>}
VlGenders == {"male", "female", "unknown", "child"}
VlStyles == {"default", "young", "narrator-2"}

\* str.lower()
LowerStr(s) == [k \in 1..Len(s) |-> LowerChar(s[k])]

RECURSIVE BeforeDash(_)
\* s.split("-")[0]
BeforeDash(s) ==
    IF s = <<>> \/ Head(s) = "-" THEN <<>> ELSE <<Head(s)>> \o BeforeDash(Tail(s))

VoiceReturned(voice) == [raised |-> FALSE, voice |-> voice]

KeyErrorRaised == [raised |-> TRUE, voice |-> "KeyError"]

NoLookup == [raised |-> FALSE, voice |-> "none"]

\* d.get(gender, d["female"]) on a {"male", "female"} entry
GenderOrFemale(entry, gender) ==
    IF gender = "male" THEN entry.male ELSE entry.female

\* d[gender] on a {"male", "female"} entry or table
GenderIndex(entry, gender) ==
    CASE gender = "male" -> VoiceReturned(entry.male)
      [] gender = "female" -> VoiceReturned(entry.female)
      [] OTHER -> KeyErrorRaised

\* edge_tts_dub.py 188-202
get_voice(language_code, gender) ==
    LET lang == LowerStr(language_code)
        base_lang == BeforeDash(lang)
    IN  IF lang \in DOMAIN EDGE_VOICE_MAP
        THEN VoiceReturned(GenderOrFemale(EDGE_VOICE_MAP[lang], gender))
        ELSE IF base_lang \in DOMAIN EDGE_VOICE_MAP
        THEN VoiceReturned(GenderOrFemale(EDGE_VOICE_MAP[base_lang], gender))
        ELSE GenderIndex(EDGE_VOICE_MAP[<<"e", "n">>], gender)

\* elevenlabs_tts.py 55-62; the default VOICE_MAP[gender]["default"] of the
\* second get is evaluated before the get is called
get_voice_id(language, gender, style) ==
    LET lang == BeforeDash(LowerStr(language))
    IN  IF lang \in DOMAIN LANGUAGE_VOICES
        THEN VoiceReturned(GenderOrFemale(LANGUAGE_VOICES[lang], gender))
        ELSE IF gender \notin {"male", "female"}
        THEN KeyErrorRaised
        ELSE LET styles == IF gender = "male" THEN ELEVEN_VOICE_MAP.male
                           ELSE ELEVEN_VOICE_MAP.female
             IN  VoiceReturned(IF style \in DOMAIN styles THEN styles[style]
                               ELSE styles["default"])

VlIdle ==
    /\ vl_pc = "off"
    /\ vl_language = <<>>
    /\ vl_gender = "none"
    /\ vl_style = "none"
    /\ vl_function = "none"
    /\ vl_result = NoLookup

VlInit ==
    /\ vl_pc = "idle"
    /\ vl_language \in VlLanguages
    /\ vl_gender \in VlGenders
    /\ vl_style \in VlStyles
    /\ vl_function = "none"
    /\ vl_result = NoLookup

\* a call get_voice(language_code, gender)
VlGetVoice ==
    /\ vl_pc = "idle"
    /\ vl_pc' = "done"
    /\ vl_function' = "get_voice"
    /\ vl_result' = get_voice(vl_language, vl_gender)
    /\ UNCHANGED <<vl_language, vl_gender, vl_style>>

\* a call get_voice_id(language, gender, style)
VlGetVoiceId ==
    /\ vl_pc = "idle"
    /\ vl_pc' = "done"
    /\ vl_function' = "get_voice_id"
    /\ vl_result' = get_voice_id(vl_language, vl_gender, vl_style)
    /\ UNCHANGED <<vl_language, vl_gender, vl_style>>

NextVl ==
    \/ VlGetVoice
    \/ VlGetVoiceId

-----------------------------------------------------------------------------
(* elevenlabs_tts.py : generate_timed_segments *)

VARIABLES
    el_pc,               \* "off" | "loop" | "done"
    el_language,         \* argument language
    el_mode,             \* speaker_config mode: "single" | "smart" | "custom"
    el_segments,         \* argument segments: [blank, gender]
    el_i,                \* loop index i of enumerate(segments), 0-based
    generated_segments,  \* generated_segments: the index of every segment with audio
    failed_count,        \* failed_count
    el_result            \* returned dict: [success, total_segments, failed_segments]

elVars == <<el_pc, el_language, el_mode, el_segments, el_i, generated_segments,
            failed_count, el_result>>

MaxElSegs == 3

ElModes == {"single", "smart", "custom"}

ElLanguages == {<<"f", "r">>, <<"x", "x">>}

\* a segment: its text is blank or not; its gender, which in mode "custom"
\* stands for the gender of the speaker entry i % len(speakers)
ElSegment == [blank : BOOLEAN, gender : {"male", "unknown"}]

NoElResult == [success |-> FALSE, total_segments |-> -1, failed_segments |-> -1]

\* lines 301-311, with defaultGender "female"
ElGender(mode, seg) ==
    CASE mode = "single" -> "female"
      [] mode = "smart" -> IF seg.gender \in {"male", "female"} THEN seg.gender
                           ELSE "female"
      [] OTHER -> seg.gender

ElIdle ==
    /\ el_pc = "off"
    /\ el_language = <<>>
    /\ el_mode = "none"
    /\ el_segments = <<>>
    /\ el_i = 0
    /\ generated_segments = <<>>
    /\ failed_count = 0
    /\ el_result = NoElResult

\* a call of generate_timed_segments; lines 280-291
ElInit ==
    /\ el_pc = "loop"
    /\ el_language \in ElLanguages
    /\ el_mode \in ElModes
    /\ \E n \in 0..MaxElSegs : el_segments \in [1..n -> ElSegment]
    /\ el_i = 0
    /\ generated_segments = <<>>
    /\ failed_count = 0
    /\ el_result = NoElResult

\* lines 293-332: one iteration of the loop
ElLoopSegment ==
    /\ el_pc = "loop"
    /\ el_i < Len(el_segments)
    /\ LET seg == el_segments[el_i + 1]
           voice == get_voice_id(el_language, ElGender(el_mode, seg), "default")
       IN  IF seg.blank
           THEN /\ el_i' = el_i + 1
                /\ UNCHANGED <<el_pc, generated_segments, failed_count, el_result>>
           ELSE IF voice.raised
           THEN \* caught at line 345
                /\ el_pc' = "done"
                /\ el_result' = NoElResult
                /\ UNCHANGED <<el_i, generated_segments, failed_count>>
           ELSE \E success \in BOOLEAN :
                  /\ el_i' = el_i + 1
                  /\ generated_segments' = IF success
                                           THEN Append(generated_segments, el_i)
                                           ELSE generated_segments
                  /\ failed_count' = IF success THEN failed_count ELSE failed_count + 1
                  /\ UNCHANGED <<el_pc, el_result>>
    /\ UNCHANGED <<el_language, el_mode, el_segments>>

\* lines 334-343
ElReturn ==
    /\ el_pc = "loop"
    /\ el_i = Len(el_segments)
    /\ el_pc' = "done"
    /\ el_result' = [success |-> TRUE,
                     total_segments |-> Len(generated_segments),
                     failed_segments |-> failed_count]
    /\ UNCHANGED <<el_language, el_mode, el_segments, el_i, generated_segments,
                   failed_count>>

NextEl ==
    \/ ElLoopSegment
    \/ ElReturn

-----------------------------------------------------------------------------
(* whisper_transcribe.py : transcribe_with_faster_whisper, the segment loop *)
(* Times of the engine are in units of 0.1 ms; round(x, 3) rounds them to    *)
(* a whole number of ms.                                                     *)

VARIABLES
    fw_pc,            \* "off" | "loop" | "done"
    segments_iter,    \* what model.transcribe yields: [start, end]
    fw_k,             \* number of segments consumed from segments_iter
    fw_segments,      \* segments: [id, start, end, duration, speaker_id]
    segment_id,       \* segment_id
    last_end,         \* last_end
    current_speaker,  \* current_speaker
    fw_result         \* returned dict: [success, total_segments]

fwVars == <<fw_pc, segments_iter, fw_k, fw_segments, segment_id, last_end,
            current_speaker, fw_result>>

MaxFwSegs == 3

\* silence before a segment: none, 2 s, just above 2 s, 3 s
FwGaps == {0, 20000, 20004, 30000}

SPEAKER_GAP == 20000     \* "if gap > 2.0", line 138

\* round(x, 3) of a time x >= 0
RoundMs(x) == ((x + 5) \div 10) * 10

RECURSIVE FwSegmentsFrom(_, _)
\* the segments of 1.0003 s that follow each other with the given silences,
\* from time t
FwSegmentsFrom(gaps, t) ==
    LET end == t + Head(gaps) + 10003
    IN  IF gaps = <<>> THEN <<>>
        ELSE <<[start |-> t + Head(gaps), end |-> end]>>
             \o FwSegmentsFrom(Tail(gaps), end)

\* lines 137-139
NextSpeaker(speaker, gap) ==
    IF gap > SPEAKER_GAP THEN (speaker + 1) % 2 ELSE speaker

\* lines 141-149
SegData(id, segment, speaker) ==
    [id |-> id,
     start |-> RoundMs(segment.start),
     end |-> RoundMs(segment.end),
     duration |-> RoundMs(segment.end - segment.start),
     speaker_id |-> speaker]

NoFwResult == [success |-> FALSE, total_segments |-> -1]

FwIdle ==
    /\ fw_pc = "off"
    /\ segments_iter = <<>>
    /\ fw_k = 0
    /\ fw_segments = <<>>
    /\ segment_id = 0
    /\ last_end = 0
    /\ current_speaker = 0
    /\ fw_result = NoFwResult

\* lines 109-122: the engine has been started, the loop is about to run
FwInit ==
    /\ fw_pc = "loop"
    /\ \E n \in 0..MaxFwSegs : \E gaps \in [1..n -> FwGaps] :
         segments_iter = FwSegmentsFrom(gaps, 0)
    /\ fw_k = 0
    /\ fw_segments = <<>>
    /\ segment_id = 0
    /\ last_end = 0
    /\ current_speaker = 0
    /\ fw_result = NoFwResult

\* lines 124-152: one iteration of the loop
FwLoopSegment ==
    /\ fw_pc = "loop"
    /\ fw_k < Len(segments_iter)
    /\ LET segment == segments_iter[fw_k + 1]
           gap == segment.start - last_end
       IN  /\ current_speaker' = NextSpeaker(current_speaker, gap)
           /\ fw_segments' = Append(fw_segments,
                                    SegData(segment_id, segment, current_speaker'))
           /\ last_end' = segment.end
    /\ segment_id' = segment_id + 1
    /\ fw_k' = fw_k + 1
    /\ UNCHANGED <<fw_pc, segments_iter, fw_result>>

\* lines 185-191: the engine raises while the segments are read
FwRaise ==
    /\ fw_pc = "loop"
    /\ fw_k < Len(segments_iter)
    /\ fw_pc' = "done"
    /\ fw_result' = NoFwResult
    /\ UNCHANGED <<segments_iter, fw_k, fw_segments, segment_id, last_end,
                   current_speaker>>

\* lines 158-183
FwReturn ==
    /\ fw_pc = "loop"
    /\ fw_k = Len(segments_iter)
    /\ fw_pc' = "done"
    /\ fw_result' = [success |-> TRUE, total_segments |-> Len(fw_segments)]
    /\ UNCHANGED <<segments_iter, fw_k, fw_segments, segment_id, last_end,
                   current_speaker>>

NextFw ==
    \/ FwLoopSegment
    \/ FwRaise
    \/ FwReturn

-----------------------------------------------------------------------------
(* whisper_transcribe.py : transcribe_with_openai_api, the reply *)
(* Times of the reply are in units of 0.1 ms.  A word is [start, end,        *)
(* tokens], tokens being len(word_text.split()).                             *)

VARIABLES
    oa_pc,            \* "off" | "request" | "loop" | "done"
    oa_words,         \* result["words"] of the reply
    oa_k,             \* number of words consumed by the loop
    oa_segments,      \* segments
    current_segment,  \* current_segment, NoSegment for None
    all_words,        \* all_words
    oa_result         \* returned dict: [success, total_segments, total_words]

oaVars == <<oa_pc, oa_words, oa_k, oa_segments, current_segment, all_words, oa_result>>

MaxWords == 22

WORD_LIMIT == 20      \* ">= 20", line 291
WORD_GAP == 15000     \* "gap > 1.5", line 291

\* positions of the words preceded by a silence of 1.5004 s / of exactly 1.5 s
WordGapShapes ==
    {[long |-> {}, edge |-> {}], [long |-> {2}, edge |-> {}],
     [long |-> {}, edge |-> {2}], [long |-> {21}, edge |-> {}],
     [long |-> {11}, edge |-> {3}], [long |-> {2, 3}, edge |-> {}],
     [long |-> {22}, edge |-> {21}]}

RECURSIVE WordsFrom(_, _, _, _)
\* n - k + 1 words of 0.3003 s, word k onwards, the previous one ending at t
WordsFrom(k, n, shape, t) ==
    LET silence == IF k \in shape.long THEN WORD_GAP + 4
                   ELSE IF k \in shape.edge THEN WORD_GAP ELSE 1000
        word_start == t + silence
        word_end == word_start + 3003
    IN  IF k > n THEN <<>>
        ELSE <<[start |-> word_start, end |-> word_end, tokens |-> 1]>>
             \o WordsFrom(k + 1, n, shape, word_end)

\* line 278
WordData(word) == [start |-> RoundMs(word.start), end |-> RoundMs(word.end)]

NoSegment == [id |-> -1, start |-> 0, end |-> 0, tokens |-> 0, words |-> <<>>, duration |-> -1]

\* lines 282-288, 295-301
NewSegment(id, word) ==
    [id |-> id, start |-> word.start, end |-> word.end, tokens |-> word.tokens,
     words |-> <<WordData(word)>>, duration |-> -1]

\* mutant: a segment is closed only once it holds more than 20 words
StartsNewSegment_Late(segment, word) ==
    \/ word.start - segment.end > WORD_GAP
    \/ segment.tokens > WORD_LIMIT

\* lines 290-291
StartsNewSegment(segment, word) ==
    \/ word.start - segment.end > WORD_GAP
    \/ segment.tokens >= WORD_LIMIT

\* lines 292, 308
Closed(segment) ==
    [segment EXCEPT !.duration = RoundMs(segment.end - segment.start)]

NoOaResult == [success |-> FALSE, total_segments |-> -1, total_words |-> -1]

OaIdle ==
    /\ oa_pc = "off"
    /\ oa_words = <<>>
    /\ oa_k = 0
    /\ oa_segments = <<>>
    /\ current_segment = NoSegment
    /\ all_words = <<>>
    /\ oa_result = NoOaResult

\* the request of line 260 has been built
OaInit ==
    /\ oa_pc = "request"
    /\ \E n \in 0..MaxWords, shape \in WordGapShapes : oa_words = WordsFrom(1, n, shape, 0)
    /\ oa_k = 0
    /\ oa_segments = <<>>
    /\ current_segment = NoSegment
    /\ all_words = <<>>
    /\ oa_result = NoOaResult

\* lines 337-341: the request fails
OaRequestFails ==
    /\ oa_pc = "request"
    /\ oa_pc' = "done"
    /\ UNCHANGED <<oa_words, oa_k, oa_segments, current_segment, all_words, oa_result>>

\* lines 263-271: the reply carries the word list
OaReplyWords ==
    /\ oa_pc = "request"
    /\ oa_pc' = "loop"
    /\ UNCHANGED <<oa_words, oa_k, oa_segments, current_segment, all_words, oa_result>>

\* lines 273-305: one iteration of the grouping loop
OaLoopWord ==
    /\ oa_pc = "loop"
    /\ oa_k < Len(oa_words)
    /\ LET word == oa_words[oa_k + 1]
       IN  /\ all_words' = Append(all_words, WordData(word))
           /\ IF current_segment = NoSegment
              THEN /\ current_segment' = NewSegment(0, word)
                   /\ UNCHANGED oa_segments
              ELSE IF StartsNewSegment(current_segment, word)
              THEN /\ oa_segments' = Append(oa_segments, Closed(current_segment))
                   /\ current_segment' = NewSegment(current_segment.id + 1, word)
              ELSE /\ current_segment' =
                        [current_segment EXCEPT
                            !.tokens = @ + word.tokens,
                            !.end = word.end,
                            !.words = Append(@, WordData(word))]
                   /\ UNCHANGED oa_segments
    /\ oa_k' = oa_k + 1
    /\ UNCHANGED <<oa_pc, oa_words, oa_result>>

\* lines 307-335: close the last segment, return
OaReturn ==
    /\ oa_pc = "loop"
    /\ oa_k = Len(oa_words)
    /\ oa_pc' = "done"
    /\ oa_segments' = IF current_segment # NoSegment
                      THEN Append(oa_segments, Closed(current_segment))
                      ELSE oa_segments
    /\ oa_result' = [success |-> TRUE, total_segments |-> Len(oa_segments'),
                     total_words |-> Len(all_words)]
    /\ UNCHANGED <<oa_words, oa_k, current_segment, all_words>>

NextOa ==
    \/ OaRequestFails
    \/ OaReplyWords
    \/ OaLoopWord
    \/ OaReturn

-----------------------------------------------------------------------------
(* Specifications: one per stage, and Spec for a stage chosen initially *)

vars == <<asmVars, trVars, vaVars, gaVars, synVars, ppVars, cmd_segments, wtVars, sdVars,
         mainVars,
         stVars,
         mxVars,
         hoVars,
         txVars,
         vlVars,
         elVars,
         fwVars,
         oaVars>>

\* the stages of the dubbing step proper
coreVars == <<asmVars, trVars, vaVars, gaVars, synVars>>

CoreIdle == AsmIdle /\ TrIdle /\ VaIdle /\ GaIdle /\ SynIdle

\* the stages that prepare the source audio
prepVars == <<ppVars, wtVars, sdVars, mainVars, stVars, mxVars, hoVars, txVars, vlVars, elVars, fwVars, oaVars>>

PrepIdle == PpIdle /\ WtIdle /\ SdIdle /\ MainIdle /\ StIdle /\ MxIdle /\ HoIdle /\ TxIdle /\ VlIdle /\ ElIdle /\ FwIdle /\ OaIdle

\* everything outside the dubbing stages
restVars == <<prepVars, cmd_segments>>

RestIdle == PrepIdle /\ CmdIdle

InitAsm == AsmInit /\ TrIdle /\ VaIdle /\ GaIdle /\ SynIdle /\ RestIdle

NextAsm == NextAsmStage /\ UNCHANGED <<trVars, vaVars, gaVars, synVars, restVars>>

SpecAsm == InitAsm /\ [][NextAsm]_vars

InitTr == AsmIdle /\ TrInit /\ VaIdle /\ GaIdle /\ SynIdle /\ RestIdle

NextTrStage == NextTr /\ UNCHANGED <<asmVars, vaVars, gaVars, synVars, restVars>>

SpecTr == InitTr /\ [][NextTrStage]_vars

InitVa == AsmIdle /\ TrIdle /\ VaInit /\ GaIdle /\ SynIdle /\ RestIdle

NextVaStage == NextVa /\ UNCHANGED <<asmVars, trVars, gaVars, synVars, restVars>>

SpecVa == InitVa /\ [][NextVaStage]_vars

InitGa == AsmIdle /\ TrIdle /\ VaIdle /\ GaInit /\ SynIdle /\ RestIdle

NextGaStage == NextGa /\ UNCHANGED <<asmVars, trVars, vaVars, synVars, restVars>>

SpecGa == InitGa /\ [][NextGaStage]_vars

InitSyn == AsmIdle /\ TrIdle /\ VaIdle /\ GaIdle /\ SynInit /\ RestIdle

NextSynStage == NextSyn /\ UNCHANGED <<asmVars, trVars, vaVars, gaVars, restVars>>

SpecSyn == InitSyn /\ [][NextSynStage]_vars

InitRate == AsmIdle /\ TrIdle /\ VaIdle /\ GaIdle /\ SynInitWith(RateInputs) /\ RestIdle

NextRateStage == NextRate /\ UNCHANGED <<asmVars, trVars, vaVars, gaVars, restVars>>

SpecRate == InitRate /\ [][NextRateStage]_vars

InitPp == CoreIdle /\ PpInit /\ CmdIdle /\ WtIdle /\ SdIdle /\ MainIdle /\ StIdle /\ MxIdle /\ HoIdle /\ TxIdle /\ VlIdle /\ ElIdle /\ FwIdle /\ OaIdle

NextPpStage == NextPp /\ UNCHANGED <<coreVars, cmd_segments, wtVars, sdVars, mainVars, stVars, mxVars, hoVars, txVars, vlVars, elVars, fwVars, oaVars>>

InitAsmCmd == AsmCmdInit /\ TrIdle /\ VaIdle /\ GaIdle /\ SynIdle /\ PrepIdle

NextAsmCmdStage ==
    NextAsmCmd /\ UNCHANGED <<trVars, vaVars, gaVars, synVars, prepVars>>

SpecAsmCmd == InitAsmCmd /\ [][NextAsmCmdStage]_vars

SpecPp == InitPp /\ [][NextPpStage]_vars

InitWt == CoreIdle /\ PpIdle /\ CmdIdle /\ WtInit /\ SdIdle /\ MainIdle /\ StIdle /\ MxIdle /\ HoIdle /\ TxIdle /\ VlIdle /\ ElIdle /\ FwIdle /\ OaIdle

NextWtStage == NextWt /\ UNCHANGED <<coreVars, ppVars, cmd_segments, sdVars, mainVars, stVars, mxVars, hoVars, txVars, vlVars, elVars, fwVars, oaVars>>

SpecWt == InitWt /\ [][NextWtStage]_vars

InitSd == CoreIdle /\ PpIdle /\ CmdIdle /\ WtIdle /\ SdInit /\ MainIdle /\ StIdle /\ MxIdle /\ HoIdle /\ TxIdle /\ VlIdle /\ ElIdle /\ FwIdle /\ OaIdle

NextSdStage == NextSd /\ UNCHANGED <<coreVars, ppVars, cmd_segments, wtVars, mainVars, stVars, mxVars, hoVars, txVars, vlVars, elVars, fwVars, oaVars>>

SpecSd == InitSd /\ [][NextSdStage]_vars

InitMain == CoreIdle /\ CmdIdle /\ PpIdle /\ WtIdle /\ SdIdle /\ MainInit /\ StIdle /\ MxIdle /\ HoIdle /\ TxIdle /\ VlIdle /\ ElIdle /\ FwIdle /\ OaIdle

NextMainStage == NextMain /\ UNCHANGED <<coreVars, cmd_segments, ppVars, wtVars, sdVars, stVars, mxVars, hoVars, txVars, vlVars, elVars, fwVars, oaVars>>

SpecMain == InitMain /\ [][NextMainStage]_vars

InitSt == CoreIdle /\ CmdIdle /\ PpIdle /\ WtIdle /\ SdIdle /\ MainIdle /\ StInit /\ MxIdle /\ HoIdle /\ TxIdle /\ VlIdle /\ ElIdle /\ FwIdle /\ OaIdle

NextStStage == NextSt /\ UNCHANGED <<coreVars, cmd_segments, ppVars, wtVars, sdVars, mainVars, mxVars, hoVars, txVars, vlVars, elVars, fwVars, oaVars>>

SpecSt == InitSt /\ [][NextStStage]_vars

InitMx == CoreIdle /\ CmdIdle /\ PpIdle /\ WtIdle /\ SdIdle /\ MainIdle /\ StIdle /\ MxInit /\ HoIdle /\ TxIdle /\ VlIdle /\ ElIdle /\ FwIdle /\ OaIdle

NextMxStage == NextMx /\ UNCHANGED <<coreVars, cmd_segments, ppVars, wtVars, sdVars, mainVars, stVars, hoVars, txVars, vlVars, elVars, fwVars, oaVars>>

SpecMx == InitMx /\ [][NextMxStage]_vars

InitHo == CoreIdle /\ CmdIdle /\ PpIdle /\ WtIdle /\ SdIdle /\ MainIdle /\ StIdle /\ MxIdle /\ HoInit /\ TxIdle /\ VlIdle /\ ElIdle /\ FwIdle /\ OaIdle

NextHoStage == NextHo /\ UNCHANGED <<coreVars, cmd_segments, ppVars, wtVars, sdVars, mainVars, stVars, mxVars, txVars, vlVars, elVars, fwVars, oaVars>>

SpecHo == InitHo /\ [][NextHoStage]_vars

InitTx == CoreIdle /\ CmdIdle /\ PpIdle /\ WtIdle /\ SdIdle /\ MainIdle /\ StIdle /\ MxIdle /\ HoIdle /\ TxInit /\ VlIdle /\ ElIdle /\ FwIdle /\ OaIdle

NextTxStage == NextTx /\ UNCHANGED <<coreVars, cmd_segments, ppVars, wtVars, sdVars, mainVars, stVars, mxVars, hoVars, vlVars, elVars, fwVars, oaVars>>

SpecTx == InitTx /\ [][NextTxStage]_vars

InitVl == CoreIdle /\ CmdIdle /\ PpIdle /\ WtIdle /\ SdIdle /\ MainIdle /\ StIdle /\ MxIdle /\ HoIdle /\ TxIdle /\ VlInit /\ ElIdle /\ FwIdle /\ OaIdle

NextVlStage == NextVl /\ UNCHANGED <<coreVars, cmd_segments, ppVars, wtVars, sdVars, mainVars, stVars, mxVars, hoVars, txVars, elVars, fwVars, oaVars>>

SpecVl == InitVl /\ [][NextVlStage]_vars

InitEl == CoreIdle /\ CmdIdle /\ PpIdle /\ WtIdle /\ SdIdle /\ MainIdle /\ StIdle /\ MxIdle /\ HoIdle /\ TxIdle /\ VlIdle /\ ElInit /\ FwIdle /\ OaIdle

NextElStage == NextEl /\ UNCHANGED <<coreVars, cmd_segments, ppVars, wtVars, sdVars, mainVars, stVars, mxVars, hoVars, txVars, vlVars, fwVars, oaVars>>

SpecEl == InitEl /\ [][NextElStage]_vars

InitFw == CoreIdle /\ CmdIdle /\ PpIdle /\ WtIdle /\ SdIdle /\ MainIdle /\ StIdle /\ MxIdle /\ HoIdle /\ TxIdle /\ VlIdle /\ ElIdle /\ FwInit /\ OaIdle

NextFwStage == NextFw /\ UNCHANGED <<coreVars, cmd_segments, ppVars, wtVars, sdVars, mainVars, stVars, mxVars, hoVars, txVars, vlVars, elVars, oaVars>>

SpecFw == InitFw /\ [][NextFwStage]_vars

InitOa == CoreIdle /\ CmdIdle /\ PpIdle /\ WtIdle /\ SdIdle /\ MainIdle /\ StIdle /\ MxIdle /\ HoIdle /\ TxIdle /\ VlIdle /\ ElIdle /\ FwIdle /\ OaInit

NextOaStage == NextOa /\ UNCHANGED <<coreVars, cmd_segments, ppVars, wtVars, sdVars, mainVars, stVars, mxVars, hoVars, txVars, vlVars, elVars, fwVars>>

SpecOa == InitOa /\ [][NextOaStage]_vars

\* boundary inputs: every stage called on a list of at most one segment
InitBoundary ==
    \/ AsmInitWith(UNION {[1..n -> AsmSegment] : n \in 0..1})
          /\ TrIdle /\ VaIdle /\ GaIdle /\ SynIdle /\ RestIdle
    \/ AsmIdle /\ TrInitWith(TtInputsOf({0, 1})) /\ VaIdle /\ GaIdle /\ SynIdle
          /\ RestIdle
    \/ AsmIdle /\ TrIdle /\ VaIdle /\ GaIdle /\ SynInitWith(SynInputsUpTo(1))
          /\ RestIdle

NextBoundary == NextAsm \/ NextTrStage \/ NextSynStage

SpecBoundary == InitBoundary /\ [][NextBoundary]_vars

-----------------------------------------------------------------------------
(* Claims *)

\* C1 (SpecAsm): when assemble_segments_with_timing succeeds, the pieces it
\* concatenated add up to total_duration within max(0.5 s, 1% of total_duration).
\* Stated for the calls in which every silence was generated: the claim covers
\* them, so a violation here is a violation of the claim.
C1_AssembledDurationWithinTolerance ==
    (asm_pc = "done" /\ asm_result.success /\ ~silence_failed)
        => 100 * Abs(SumDur(segment_files) - total_duration)
               <= Max(100 * GOOD_LIMIT_MS, total_duration)

\* C2 (SpecAsm): every segment's piece starts at the segment's start time: the
\* pieces appended before it add up to seg.start, and the cursor current_time
\* is the real length of what has been appended.  Stated for the calls in
\* which every silence was generated, which the claim covers.
C2_PiecesStartAtSegmentStart ==
    ~silence_failed
        => /\ \A k \in 1..Len(segment_files) :
                 segment_files[k].kind \in {"clip", "adjusted", "gap"}
                     => SumDur(SubSeq(segment_files, 1, k - 1))
                            = segment_files[k].seg.start
           /\ asm_pc \in {"loop", "tail"} => current_time = SumDur(segment_files)

\* C3 (SpecTr): a successful translate_segments call returns as many
\* translations as the batch has texts, and a successful
\* translate_timed_segments returns as many segments as there are non-blank texts.
C3_TranslationCountPreserved ==
    /\ (tt_pc = "ret" /\ ts_ret.success)
          => Len(ts_ret.translations) = Len(BatchTexts(texts, batch_start))
    /\ (tt_pc = "done" /\ tt_result.success)
          => Len(tt_result.segments) = Len(texts)

\* the ids of the texts a translation translates
TranslatedIds(t) == {t[k] : k \in 1..Len(t)} \ {MARK, NL, JUNK}

\* C4 (SpecTr): the j-th output segment has the timestamps and the original
\* text of the j-th non-blank input segment and carries the translation of
\* that text, not of a neighbour's.
C4_TranslationsStayAligned ==
    (tt_pc = "done" /\ tt_result.success)
        => \A j \in 1..Len(tt_result.segments) :
              LET out == tt_result.segments[j]
                  src == NonBlank(tt_segments)[j]
              IN /\ out.start = src.start
                 /\ out.end = src.end
                 /\ out.original_text = src.text
                 /\ TranslatedIds(out.text) = {src.text}

\* C5 (SpecVa): every get_voice_for_speaker call returns the voice that the
\* first call with the same (speaker_id, language) returned.
C5_VoiceStable ==
    va_calls > 0 => va_last.voice = va_first[<<va_last.speaker_id, va_last.language>>]

C5_Witness ==
    /\ va_last.cached
    /\ Cardinality(DOMAIN speaker_voice_map) >= 2
    /\ va_calls = 3

\* number of results that are not successful
RECURSIVE CountNotSuccessful(_)
CountNotSuccessful(rs) ==
    IF rs = <<>> THEN 0
    ELSE (IF Head(rs).success THEN 0 ELSE 1) + CountNotSuccessful(Tail(rs))

\* number of results whose TTS attempts all failed
RECURSIVE CountTtsFailed(_)
CountTtsFailed(rs) ==
    IF rs = <<>> THEN 0
    ELSE (IF Head(rs).error = "tts failed" THEN 1 ELSE 0) + CountTtsFailed(Tail(rs))

C6_WitnessExactlyFifth ==
    /\ syn_pc = "done"
    /\ syn_result.counted
    /\ ~syn_result.success
    /\ CountTtsFailed(results) = 1
    /\ Len(syn_segments) = 5

RECURSIVE CountQuality(_, _)
CountQuality(rs, q) ==
    IF rs = <<>> THEN 0
    ELSE (IF Head(rs).success /\ Head(rs).sync_quality = q THEN 1 ELSE 0)
         + CountQuality(Tail(rs), q)

CountedAsPoor ==
    /\ seg_result.sync_quality = "poor"
    /\ sync_stats.poor >= 1
    /\ sync_stats.poor = CountQuality(results, "poor")

\* C7 as stated (SpecSyn): a successful segment is within 0.3 s of its target
\* duration or is classified poor and counted under poor.
C7_WithinThresholdOrPoor ==
    seg_result.success
        => \/ Abs(seg_result.actual_duration - seg_result.target_duration)
                  <= SYNC_THRESHOLD_MS
           \/ CountedAsPoor

\* C7 amended (SpecSyn): a successful segment with a positive target duration
\* and a positive first measurement is within 1.0 s of its target (good up to
\* 0.5 s, fair up to 1.0 s) or is classified poor and counted under poor;
\* without them its sync error is 0 and it is classified good.
C7_WithinFairLimitOrPoor ==
    seg_result.success
        => IF seg_result.target_duration > 0 /\ seg_result.first_duration > 0
           THEN \/ /\ Abs(seg_result.actual_duration - seg_result.target_duration)
                         <= FAIR_LIMIT_MS
                   /\ seg_result.sync_quality \in {"good", "fair"}
                   /\ seg_result.sync_quality = "good"
                        <=> Abs(seg_result.actual_duration - seg_result.target_duration)
                               <= GOOD_LIMIT_MS
                \/ CountedAsPoor
           ELSE seg_result.sync_error = 0 /\ seg_result.sync_quality = "good"

C7_Witness ==
    /\ seg_result.success
    /\ seg_result.renders = 2
    /\ CountedAsPoor

\* C8 as stated (SpecBoundary): with an empty segment list translate,
\* synthesize and assemble return success, and the assembled track is silence
\* of length total_duration.
C8_EmptyListSucceeds ==
    /\ (tt_pc = "done" /\ tt_segments = <<>>) => tt_result.success
    /\ (syn_pc = "done" /\ syn_segments = <<>>) => syn_result.success
    /\ (asm_pc = "done" /\ tts_segments = <<>>)
          => asm_result.success /\ SumDur(segment_files) = total_duration

\* C8 amended (SpecBoundary): with an empty segment list translate,
\* synthesize and assemble each return failure with their "no segments"
\* error, without a provider request, a result or a piece of audio.
C8_EmptyListFails ==
    /\ (tt_pc = "done" /\ tt_segments = <<>>)
          => /\ ~tt_result.success
             /\ tt_result.error = "No text segments to translate"
             /\ call_log = <<>>
    /\ (syn_pc = "done" /\ syn_segments = <<>>)
          => /\ ~syn_result.success
             /\ syn_result.error = "No segments found in file"
             /\ results = <<>>
    /\ (asm_pc \in {"loop", "tail", "concat", "done"} /\ tts_segments = <<>>)
          => /\ asm_pc = "done"
             /\ ~asm_result.success
             /\ asm_result.error = "No segments provided"
             /\ segment_files = <<>>

C8_Witness ==
    /\ asm_pc = "done"
    /\ tts_segments = <<>>
    /\ asm_result.error = "No segments provided"

\* some translate_segments call for the batch starting at b failed
BatchFailed(b) == \E k \in 1..Len(call_log) : call_log[k].batch = b /\ ~call_log[k].ok

\* C9 (SpecTr): translate_timed_segments ends in failure if and only if three
\* consecutive batches have failed.
C9_FatalIffThreeConsecutiveFailures ==
    (tt_pc = "done" /\ texts # <<>>)
        => (~tt_result.success
              <=> /\ batch_start >= 2 * BATCH_SIZE
                  /\ BatchFailed(batch_start)
                  /\ BatchFailed(batch_start - BATCH_SIZE)
                  /\ BatchFailed(batch_start - 2 * BATCH_SIZE))

\* the calls j-3, j-2, j-1 ... : some three consecutive calls before call j
\* exhausted their primary retries
ThreeExhaustedBefore(j) ==
    \E k \in 1..(j - 3) :
        ga_history[k].exhausted /\ ga_history[k + 1].exhausted
            /\ ga_history[k + 2].exhausted

\* C10 (SpecGa): once three consecutive generate_audio calls have exhausted
\* their primary retries, no later call requests the primary provider and each
\* goes straight to the fallback provider (when it is installed); a call skips
\* the primary provider only then, so a primary success in between resets the
\* count.
C10_FallbackAfterThreeFailures ==
    /\ \A j \in 1..Len(ga_history) :
          /\ ThreeExhaustedBefore(j)
                => /\ ga_history[j].edge_reqs = 0
                   /\ ga_history[j].skipped
                   /\ ga_history[j].gtts_called = GTTS_AVAILABLE
          /\ ga_history[j].skipped => ThreeExhaustedBefore(j)
    /\ (ga_pc \in {"edge", "gtts"} /\ ThreeExhaustedBefore(Len(ga_history) + 1))
          => ga_pc = "gtts" /\ ga_edge_reqs = 0
    /\ (ga_pc = "idle" /\ ga_history # <<>> /\ ga_history[Len(ga_history)].edge_ok)
          => EDGE_TTS_CONSECUTIVE_FAILURES = 0

C10_Witness ==
    /\ Len(ga_history) = 6
    /\ ga_history[1].exhausted
    /\ ga_history[2].edge_ok
    /\ ga_history[6].skipped
    /\ ga_history[6].gtts_called

\* the segment the last generate_segment_audio call was made for
LastSegment == syn_segments[syn_i - 1]

\* the first render missed the target by more than 0.3 s
FirstRenderOff ==
    /\ seg_result.success
    /\ Abs(seg_result.first_duration - seg_result.target_duration) > SYNC_THRESHOLD_MS

Clamp(x, lo, hi) == IF x < lo THEN lo ELSE IF x > hi THEN hi ELSE x

\* adj is (actual/target - 1) * 100 rounded to the nearest integer
IsRounded(adj, actual, target) ==
    /\ 2 * (actual - target) * 100 >= (2 * adj - 1) * target
    /\ 2 * (actual - target) * 100 <= (2 * adj + 1) * target

\* adj is (actual/target - 1) * 100 with its fraction dropped (towards zero)
IsTruncated(adj, actual, target) ==
    LET x == (actual - target) * 100
    IN IF x >= 0
       THEN adj >= 0 /\ adj * target <= x /\ x < (adj + 1) * target
       ELSE adj <= 0 /\ adj * target >= x /\ x > (adj - 1) * target

AdjRange == -100..1000

\* C11 as stated (SpecRate): a first render more than 0.3 s off the target is
\* followed by exactly one more render, at the emotion rate plus
\* round((actual/target - 1) * 100), clamped to [-50, +100].  Stated for the
\* calls with a positive target and a positive first measurement.
C11_RerenderAtRoundedRate ==
    (FirstRenderOff /\ seg_result.target_duration > 0 /\ seg_result.first_duration > 0)
        => /\ seg_result.renders = 2
           /\ \E adj \in AdjRange :
                 /\ IsRounded(adj, seg_result.first_duration, seg_result.target_duration)
                 /\ seg_result.final_rate
                      = Clamp(EmotionRate(LastSegment.text) + adj, RATE_MIN, RATE_MAX)

\* What the code renders at (SpecRate): with a positive target and a positive first
\* measurement more than 0.3 s off the target, the segment is rendered exactly
\* once more, at the emotion rate plus (actual/target - 1) * 100 truncated
\* towards zero, clamped to [-50, +100]; otherwise it is rendered once, at the
\* emotion rate.
RerenderAtTruncatedRate ==
    seg_result.success
        => IF /\ FirstRenderOff
              /\ seg_result.target_duration > 0
              /\ seg_result.first_duration > 0
           THEN /\ seg_result.renders = 2
                /\ \E adj \in AdjRange :
                      /\ IsTruncated(adj, seg_result.first_duration,
                                     seg_result.target_duration)
                      /\ seg_result.final_rate
                           = Clamp(EmotionRate(LastSegment.text) + adj,
                                   RATE_MIN, RATE_MAX)
           ELSE /\ seg_result.renders = 1
                /\ seg_result.final_rate = EmotionRate(LastSegment.text)

\* target 3 s, first render 4.1 s, base rate +0%: second render at +36%
TruncatedRateReached ==
    /\ seg_result.success
    /\ seg_result.target_duration = 3000
    /\ seg_result.first_duration = 4100
    /\ LastSegment.text = "hello"
    /\ seg_result.renders = 2
    /\ seg_result.final_rate = 36

\* the steps of the log that succeeded, in the order they were attempted
RECURSIVE SucceededSteps(_)
SucceededSteps(log) ==
    IF log = <<>> THEN <<>>
    ELSE (IF Head(log).ok THEN <<Head(log).step>> ELSE <<>>) \o SucceededSteps(Tail(log))

ExtractionFailed ==
    pp_log # <<>> /\ pp_log[1].step = "extract" /\ ~pp_log[1].ok

StepRank(step) ==
    CASE step = "extract" -> 0
      [] step = "highpass" -> 1
      [] step = "denoise" -> 2
      [] step = "normalize" -> 3

\* sub-steps are attempted in the order (extract,) high-pass, denoise, normalize,
\* each at most once, and a successful call's output is a copy of the artifact
\* of the last sub-step that succeeded, itself made from the artifacts of the
\* ones that succeeded before it (the input audio if none did)
PpOrderAndOutput ==
    /\ \A i, j \in 1..Len(pp_log) :
          i < j => StepRank(pp_log[i].step) < StepRank(pp_log[j].step)
    /\ (pp_pc = "done" /\ pp_result.success)
          => output_file = SucceededSteps(pp_log)

\* C12 as stated (SpecPp): preprocess_for_transcription succeeds whichever of
\* the high-pass, denoise and normalize sub-steps fail, its output is a copy of
\* the artifact of the last sub-step that succeeded, the sub-steps run in the
\* order high-pass, denoise, normalize, and it fails only when the extraction
\* of the audio from a video container fails.
C12_FailsOnlyOnExtraction ==
    /\ PpOrderAndOutput
    /\ pp_pc = "done" => (pp_result.success <=> ~ExtractionFailed)

\* C12 amended (SpecPp): as stated, except that the call also fails when
\* copying the final artifact to output_file, or reading its size, raises.
C12_FailsOnExtractionOrCopy ==
    /\ PpOrderAndOutput
    /\ pp_pc = "done"
          => /\ ExtractionFailed => ~pp_result.success
             /\ ~pp_result.success
                   => \/ /\ ExtractionFailed
                         /\ pp_result.error = "Audio extraction failed"
                         /\ output_file = NoFile
                      \/ /\ ~ExtractionFailed
                         /\ pp_result.error = "exception"
                         /\ \A st \in {"highpass", "denoise", "normalize"} :
                               (\E k \in 1..Len(pp_log) : pp_log[k].step = st)
                                  <=> CASE st = "highpass" -> apply_highpass
                                        [] st = "denoise" -> apply_noise_reduction
                                        [] st = "normalize" -> apply_normalization

\* high-pass and normalize fail, denoise succeeds: the output is the denoised
\* extracted audio
C12_Witness ==
    /\ pp_pc = "done"
    /\ pp_result.success
    /\ pp_log = <<[step |-> "extract", ok |-> TRUE], [step |-> "highpass", ok |-> FALSE],
                  [step |-> "denoise", ok |-> TRUE], [step |-> "normalize", ok |-> FALSE]>>
    /\ output_file = <<"extract", "denoise">>

\* the pieces of the given kinds, in order
RECURSIVE PiecesOfKind(_, _)
PiecesOfKind(files, kinds) ==
    IF files = <<>> THEN <<>>
    ELSE (IF Head(files).kind \in kinds THEN <<Head(files)>> ELSE <<>>)
         \o PiecesOfKind(Tail(files), kinds)

\* the segments among the first n that have a clip, in order
RECURSIVE WithClip(_, _)
WithClip(segs, n) ==
    IF n = 0 THEN <<>>
    ELSE WithClip(segs, n - 1)
         \o (IF segs[n].clip # Missing THEN <<segs[n]>> ELSE <<>>)

\* a clip whose stretch failed: it needed adjusting and was appended as it is
StretchFailedPiece(piece) ==
    piece.kind = "clip" /\ NeedsAdjust(piece.seg.clip, piece.seg.len)

\* every segment processed so far that has a clip contributed one piece, the
\* clip itself with its own duration when it was not stretched or its stretch
\* failed; the cursor is at the end of the last processed segment, and the
\* loop runs to the end of the list
StretchFailureKeepsClip ==
    asm_pc \in {"loop", "tail", "concat", "done"} /\ tts_segments # <<>>
        => LET clips == PiecesOfKind(segment_files, {"clip", "adjusted"})
               segs == WithClip(tts_segments, asm_i - 1)
           IN /\ Len(clips) = Len(segs)
              /\ \A k \in 1..Len(clips) :
                    /\ clips[k].seg = segs[k]
                    /\ clips[k].kind = "clip" => clips[k].dur = segs[k].clip
                    /\ clips[k].kind = "adjusted"
                          => NeedsAdjust(segs[k].clip, segs[k].len)
              /\ asm_i > 1 => current_time = SegEnd(tts_segments[asm_i - 1])
              /\ asm_pc # "loop" => asm_i = Len(tts_segments) + 1

MissingClipSilenceDirect ==
    /\ (asm_pc \in {"loop", "tail", "concat", "done"} /\ ~silence_failed)
          => LET gaps == PiecesOfKind(segment_files, {"gap"})
             IN \A k \in 1..(asm_i - 1) :
                   tts_segments[k].clip = Missing
                      => /\ \E g \in 1..Len(gaps) :
                               gaps[g].seg = tts_segments[k]
                                  /\ gaps[g].dur = tts_segments[k].len
                         /\ asm_i - 1 = k => current_time = SegEnd(tts_segments[k])
    /\ (asm_pc = "done" /\ tts_segments # <<>> /\ ~silence_failed /\ ~asm_result.success)
          => asm_result.error = "Concatenation failed"

\* C14 (SpecAsmCmd): through the "assemble" command too, a segment of the job
\* whose TTS clip is missing does not fail the assembly, and the track runs in
\* silence to the end of that segment (the cursor and total_duration reach
\* it).  Stated for the runs in which every silence was generated.
C14_MissingClipBecomesSilence ==
    /\ (asm_pc = "done" /\ cmd_segments # <<>> /\ ~asm_result.success)
          => asm_result.error = "Concatenation failed"
    /\ (asm_pc = "done" /\ asm_result.success /\ ~silence_failed)
          => \A k \in 1..Len(cmd_segments) :
                cmd_segments[k].clip = Missing
                   => /\ total_duration >= SegEnd(cmd_segments[k])
                      /\ SumDur(PiecesOfKind(segment_files, {"silence", "gap", "final"}))
                            >= cmd_segments[k].len

\* number of segments with a non-empty text
RECURSIVE CountNonEmpty(_)
CountNonEmpty(segs) ==
    IF segs = <<>> THEN 0
    ELSE (IF Head(segs).text # "" THEN 1 ELSE 0) + CountNonEmpty(Tail(segs))

\* C15 (SpecSyn): a segment with an empty text causes no provider call and is
\* counted neither as failed nor as successful: the counters cover the
\* non-empty segments only, and the stage succeeds or not by the share of
\* failed ones among them.
C15_EmptyTextNotCounted ==
    /\ seg_result.error = "Empty segment text"
          => seg_result.attempts = 0 /\ seg_result.renders = 0
    /\ (syn_pc = "done" /\ syn_result.counted)
          => /\ failed = CountTtsFailed(results)
             /\ successful + failed = CountNonEmpty(syn_segments)
             /\ syn_result.success
                   <=> 5 * CountTtsFailed(results) < CountNonEmpty(syn_segments)

\* the waits after the first n failed attempts: 2 s, 4 s, 8 s
BackoffWaits(n) == [k \in 1..n |-> Pow2(k) * 1000]

\* C16 (SpecGa): generate_audio makes at most 3 attempts on the primary
\* provider, none after a success, and waits 2 s, 4 s and 8 s after the first,
\* second and third failed attempt; generate_segment_audio likewise.
C16_ThreeAttemptsBackoff ==
    /\ ga_edge_reqs <= GA_MAX_RETRIES
    /\ \A j \in 1..Len(ga_history) :
          /\ ga_history[j].edge_reqs <= GA_MAX_RETRIES
          /\ ga_history[j].exhausted => ga_history[j].edge_reqs = GA_MAX_RETRIES
    /\ ga_pc = "edge" => ga_waits = BackoffWaits(ga_edge_reqs)
    /\ (ga_pc = "gtts" /\ ~skip_edge_tts) => ga_waits = BackoffWaits(GA_MAX_RETRIES)
    /\ seg_result.attempts <= SEG_MAX_RETRIES
    /\ seg_result.success => seg_result.waits = BackoffWaits(seg_result.attempts - 1)
    /\ seg_result.error = "tts failed" => seg_result.waits = BackoffWaits(SEG_MAX_RETRIES)

\* What the code does (SpecGa, SpecSyn): the same, with no wait after the
\* third failed attempt.
ThreeAttemptsTwoWaits ==
    /\ ga_edge_reqs <= GA_MAX_RETRIES
    /\ \A j \in 1..Len(ga_history) :
          /\ ga_history[j].edge_reqs <= GA_MAX_RETRIES
          /\ ga_history[j].exhausted => ga_history[j].edge_reqs = GA_MAX_RETRIES
    /\ ga_pc = "edge" => ga_waits = BackoffWaits(ga_edge_reqs)
    /\ (ga_pc = "gtts" /\ ~skip_edge_tts) => ga_waits = BackoffWaits(GA_MAX_RETRIES - 1)
    /\ seg_result.attempts <= SEG_MAX_RETRIES
    /\ seg_result.success => seg_result.waits = BackoffWaits(seg_result.attempts - 1)
    /\ seg_result.error = "tts failed"
          => seg_result.waits = BackoffWaits(SEG_MAX_RETRIES - 1)

\* number of replies after which the code sleeps
RECURSIVE CountRetryable(_)
CountRetryable(rs) ==
    IF rs = <<>> THEN 0
    ELSE (IF Head(rs) \in {"429", "5xx", "network"} THEN 1 ELSE 0)
         + CountRetryable(Tail(rs))

\* C17 (SpecTr): one translate_segments call sends at most 3 requests; the wait
\* after the k-th request is 5 s, 10 s, 20 s when it was answered 429 and
\* 2 s, 4 s, 8 s when it was answered 5xx; after any other 4xx reply no further
\* request is sent and the call returns failure.
C17_TranslateBackoff ==
    /\ Len(ts_replies) <= TS_MAX_RETRIES
    /\ Len(ts_waits) = CountRetryable(ts_replies)
    /\ \A k \in 1..Len(ts_replies) :
          /\ ts_replies[k] = "429" => ts_waits[k] = Pow2(k - 1) * 5000
          /\ ts_replies[k] = "5xx" => ts_waits[k] = Pow2(k - 1) * 2000
          /\ ts_replies[k] = "4xx"
                => /\ k = Len(ts_replies)
                   /\ tt_pc # "req"
                   /\ ~ts_ret.success
    /\ (tt_pc = "req") => Len(ts_replies) < TS_MAX_RETRIES

\* three 429 replies: waits of 5 s, 10 s and 20 s, then failure
C17_Witness ==
    /\ tt_pc = "ret"
    /\ ts_replies = <<"429", "429", "429">>
    /\ ts_waits = <<5000, 10000, 20000>>
    /\ ~ts_ret.success

\* a 5xx reply, then a 4xx reply that ends the call
C17_WitnessClientError ==
    /\ tt_pc = "ret"
    /\ ts_replies = <<"5xx", "4xx">>
    /\ ts_waits = <<2000>>
    /\ ~ts_ret.success

-----------------------------------------------------------------------------
C18_WitnessLocal ==
    /\ wt_pc = "done"
    /\ wt_local.success
    /\ openai_api_key
    /\ wt_result.engine = "faster-whisper"

\* segments whose audio the call tried to analyse
AnalysedIndexes ==
    {k \in 1..Len(sd_log) : sd_log[k] \in {"extraction failed", "no pitch", "pitch"}}

\* the analysis failed for every segment it was tried on, and was tried
DiarizationFailed ==
    /\ AnalysedIndexes # {}
    /\ \A k \in AnalysedIndexes : sd_log[k] \in {"extraction failed", "no pitch"}

AllSpeakerZeroUnknown ==
    \A k \in 1..Len(sd_result.segments) :
        /\ sd_result.segments[k].speaker_id = 0
        /\ sd_result.segments[k].detected_gender = "unknown"

\* C19: when extraction or pitch analysis fails for every analysed segment,
\* analyze_segments still completes and every output segment has
\* speaker_id = 0 and detected_gender = unknown, for any number of segments
\* including more than max_samples.
C19_FailedDiarizationAllUnknown ==
    (sd_pc = "done" /\ sd_segments # <<>> /\ DiarizationFailed) =>
        /\ sd_result.success
        /\ Len(sd_result.segments) = Len(sd_segments)
        /\ AllSpeakerZeroUnknown

\* the same with every segment in the sample (no segment left pending)
FailedDiarizationAllUnknownWhenAllSampled ==
    (sd_pc = "done" /\ sd_segments # <<>> /\ DiarizationFailed
       /\ \A k \in 1..Len(sd_log) : sd_log[k] # "not sampled") =>
        /\ sd_result.success
        /\ Len(sd_result.segments) = Len(sd_segments)
        /\ AllSpeakerZeroUnknown

\* the same when the pitch analysis, not the extraction, is what failed
FailedPitchAllUnknown ==
    (sd_pc = "done" /\ sd_segments # <<>> /\ DiarizationFailed
       /\ \E k \in 1..Len(sd_log) : sd_log[k] = "no pitch") =>
        /\ sd_result.success
        /\ AllSpeakerZeroUnknown

InUnitInterval(r) == r.den > 0 /\ 0 <= r.num /\ r.num <= r.den

\* C20: every segment returned by analyze_segments has speaker_id in {0, 1},
\* detected_gender in {male, female, unknown} and gender_confidence in [0, 1].
C20_SegmentFieldsInRange ==
    (sd_pc = "done" /\ sd_result.success) =>
        \A k \in 1..Len(sd_result.segments) :
            /\ sd_result.segments[k].speaker_id \in {0, 1}
            /\ sd_result.segments[k].detected_gender \in {"male", "female", "unknown"}
            /\ InUnitInterval(sd_result.segments[k].gender_confidence)

\* what holds of every returned segment: the gender may also be "pending"
SegmentFieldsInRangeOrPending ==
    (sd_pc = "done" /\ sd_result.success) =>
        \A k \in 1..Len(sd_result.segments) :
            /\ sd_result.segments[k].speaker_id \in {0, 1}
            /\ sd_result.segments[k].detected_gender
                 \in {"male", "female", "unknown", "pending"}
            /\ InUnitInterval(sd_result.segments[k].gender_confidence)

\* a returned segment with a propagated gender and a confidence below one
PropagatedReached ==
    /\ sd_pc = "done"
    /\ \E k \in 1..Len(sd_log) :
         /\ sd_log[k] = "not sampled"
         /\ sd_result.segments[k].detected_gender = "female"
         /\ sd_result.segments[k].speaker_id = 1
         /\ sd_result.segments[k].gender_confidence.num > 0

\* C21: every stage command exits with code 0 if and only if the stage result
\* has success = true, and with code 1 otherwise (stated for runs in which
\* the stage function was called and the output file could be written).
C21_ExitZeroIffSuccess ==
    (main_pc = "exited" /\ main_result # NoMainResult /\ main_write_ok) =>
        /\ exit_code \in {0, 1}
        /\ exit_code = 0 <=> main_result.success

\* the same for every command but the analyze command of smart_diarize
ExitZeroIffSuccessButAnalyze ==
    (main_pc = "exited" /\ main_result # NoMainResult /\ main_write_ok
       /\ main_command # "analyze") =>
        /\ exit_code \in {0, 1}
        /\ exit_code = 0 <=> main_result.success

\* a failed check exits with 1 before the stage function is called
FailedCheckExitsOne ==
    (main_pc = "exited" /\ ~main_checks_ok) =>
        exit_code = 1 /\ main_result = NoMainResult

\* the job (1, 2, ...) that made generate_audio call k
JobOfCall(k) == 1 + Cardinality({b \in ga_job_starts : b < k})

\* primary-provider failures recorded by the job of call k before call k
FailuresOfJobBefore(k) ==
    {i \in 1..(k - 1) : JobOfCall(i) = JobOfCall(k) /\ ga_history[i].exhausted}

\* C22: the consecutive-primary-failure counter is per-job state: a call skips
\* the primary provider only on the strength of failures recorded in its own
\* job, so the failures of one job do not change which provider a later job
\* tries first.
C22_CounterIsPerJob ==
    \A k \in 1..Len(ga_history) :
        ga_history[k].skipped =>
            Cardinality(FailuresOfJobBefore(k)) >= EDGE_SKIP_THRESHOLD

\* within the first job of the process the skip is decided by the job's own
\* failures
FirstJobSkipsOnOwnFailures ==
    \A k \in 1..Len(ga_history) :
        (ga_history[k].skipped /\ JobOfCall(k) = 1) =>
            Cardinality(FailuresOfJobBefore(k)) >= EDGE_SKIP_THRESHOLD

\* a second job whose first call went straight to the fallback provider
SecondJobStartsSkipped ==
    /\ Len(ga_history) = 4
    /\ ga_job_starts = {3}
    /\ ga_history[4].skipped

\* positions in voices of the voices no speaker of this VoiceAssigner has yet
UnusedPositions(voices, used) == {k \in 1..Len(voices) : voices[k].name \notin used}

\* the step is a first-use call with these arguments and it returns the first
\* unused voice of the language and gender if there is one, else one of the
\* voices of the language and gender
FirstUseGivesFirstUnused(speaker_id, language, gender, style) ==
    LET voices == VoicesGet(LangCode(language), gender)
        free == UnusedPositions(voices, UsedIn(used_voices, LangCode(language)))
    IN  (/\ GetVoiceForSpeaker(speaker_id, language, gender, 200, style)
         /\ ~CacheHit(speaker_voice_map, CacheKey(speaker_id, language)))
        => IF free # {}
           THEN va_last'.voice = voices[CHOOSE k \in free : \A j \in free : k <= j].name
           ELSE \E k \in 1..Len(voices) : va_last'.voice = voices[k].name

\* C23: on first use of a (speaker_id, language) pair get_voice_for_speaker
\* returns the first voice, in catalog order, of the language and gender that
\* is not yet assigned in this VoiceAssigner, whenever one exists and for every
\* style argument; an assigned voice is reused only when all are used.
C23_FirstUnusedVoice ==
    [][\A speaker_id \in VaSpeakers, language \in VaLanguages,
          gender \in {"male", "female"}, style \in VaStyles :
            FirstUseGivesFirstUnused(speaker_id, language, gender, style)]_vars

\* the same for the default style argument "general"
FirstUnusedVoiceGeneralStyle ==
    [][\A speaker_id \in VaSpeakers, language \in VaLanguages,
          gender \in {"male", "female"} :
            FirstUseGivesFirstUnused(speaker_id, language, gender, "general")]_vars

\* the ratio given to the primitive lies in the clamp range of that primitive
StretchWithinClampRange ==
    (st_pc = "done" /\ st_result.success) =>
        /\ st_result.method = "rubberband" =>
             /\ ~RatioLess(st_result.applied, Ratio(7, 10))
             /\ ~RatioLess(Ratio(3, 2), st_result.applied)
        /\ st_result.method = "ffmpeg_atempo" =>
             /\ ~RatioLess(st_result.applied, Ratio(1, 2))
             /\ ~RatioLess(Ratio(2, 1), st_result.applied)

\* the clip is more than twice as long as its target: every clamp is reached
ClipFarTooLong == st_target > 0 /\ st_current >= 3 * st_target

\* C24: the stretch applied is within the clamp range of the primitive used,
\* [0.7, 1.5] for rubberband and [0.5, 2.0] for ffmpeg atempo, in both
\* time_stretcher and segment_assembler; a clamped stretch returns success and
\* its result records the clamping; a clip 3 times too long is stretched at
\* the bound 1.5 (rubberband) or 2.0 (atempo).
C24_ClampedAndRecorded ==
    /\ StretchWithinClampRange
    /\ (st_pc = "done" /\ st_result.success /\ ClipFarTooLong) =>
         /\ st_result.was_clamped = "True"
         /\ st_result.method = "rubberband" => st_result.applied = Ratio(3, 2)
         /\ st_result.method = "ffmpeg_atempo" => st_result.applied = Ratio(2, 1)

\* what holds for a clip far too long: the stretch is at the bound the call
\* clamps to, and only the rubberband path of time_stretch_audio records it
ClampedAtTheLimitOfTheCall ==
    (st_pc = "done" /\ st_result.success /\ ClipFarTooLong) =>
        /\ st_result.was_clamped = "True" <=>
             (st_result.function = "time_stretch_audio"
                /\ st_result.method = "rubberband")
        /\ (st_result.function = "time_stretch_audio"
              /\ st_result.method = "rubberband") => st_result.applied = st_limits[1]
        /\ (st_result.function = "time_stretch_audio"
              /\ st_result.method = "ffmpeg_atempo") => st_result.applied = st_limits[2]
        /\ (st_result.function = "adjust_segment_speed"
              /\ st_result.method = "rubberband") => st_result.applied = Ratio(7, 10)
        /\ (st_result.function = "adjust_segment_speed"
              /\ st_result.method = "ffmpeg_atempo") => st_result.applied = Ratio(2, 1)

\* the running call has returned and its reverb primitive had failed
ReverbFailedAndReturned ==
    /\ mx_pc = "idle"
    /\ mx_calls > 0
    /\ mx_reverb \in {"nonzero", "timeout", "exception"}

\* C25: with reverb enabled, any failure of the reverb primitive (non-zero
\* exit, timeout or raised exception) lets the mix proceed with the
\* unprocessed dubbed audio: success then depends only on the final mix
\* command.
C25_ReverbFailureDoesNotAbort ==
    ReverbFailedAndReturned =>
        /\ mx_mixed # "none"
        /\ processed_dubbed = "dubbed_audio"
        /\ mx_result.success <=> mx_mixed = "ok"

\* the same for the failure that professional_mix looks at, a non-zero exit
ReverbNonZeroExitDoesNotAbort ==
    (ReverbFailedAndReturned /\ mx_reverb = "nonzero") =>
        /\ mx_mixed # "none"
        /\ processed_dubbed = "dubbed_audio"
        /\ mx_result.success <=> mx_mixed = "ok"

\* C26: a background_level supplied in settings overrides the default
\* background attenuation: two calls that differ only in background_level
\* apply different background gains.
C26_BackgroundLevelSetsGain ==
    \A p \in mx_applied, q \in mx_applied :
        p[1] # q[1] => p[2] # q[2]

\* the background gain of every mix command is 0.18
BackgroundGainIsFixed ==
    \A p \in mx_applied : p[2] = BG_VOLUME_PCT

\* translate-timed has written its file and generate_segments_audio was run on it
TranslatedFileLoaded ==
    /\ ho_pc = "done"
    /\ ho_source = "translated"
    /\ ho_file # NoJsonFile

\* C27: the file written by translate-timed is an object with a segments
\* array whose entries keep id, start, end and duration, so that
\* generate_segments_audio loads it without error and obtains a target
\* duration for every segment.
C27_TranslatedFileLoads ==
    TranslatedFileLoaded =>
        /\ ho_file.form = "object"
        /\ \A k \in 1..Len(ho_file.segments) :
             {"id", "start", "end", "duration"} \subseteq DOMAIN ho_file.segments[k]
        /\ ho_loaded.error = "none"
        /\ Len(ho_loaded.target_durations) = Len(ho_file.segments)
        /\ \A k \in 1..Len(ho_loaded.target_durations) :
             ho_loaded.target_durations[k] # <<>>

\* what the file is: a bare list whose entries keep start and end but neither
\* id nor duration, on which generate_segments_audio fails
TranslatedFileIsBareList ==
    TranslatedFileLoaded =>
        /\ ho_file.form = "list"
        /\ \A k \in 1..Len(ho_file.segments) :
             /\ {"start", "end"} \subseteq DOMAIN ho_file.segments[k]
             /\ DOMAIN ho_file.segments[k] \cap {"id", "duration"} = {}
        /\ ~ho_loaded.success
        /\ ho_loaded.target_durations = <<>>

\* the transcription itself, an object, loads with a duration per segment
TranscriptionLoads ==
    (ho_pc = "done" /\ ho_source = "transcription" /\ ho_input.segments # <<>>) =>
        /\ ho_loaded.error = "none"
        /\ \A k \in 1..Len(ho_input.segments) :
             ho_loaded.target_durations[k] = <<ho_input.segments[k].duration>>

\* the provider calls of the running call go to DeepL first, and to OpenAI
\* only after a DeepL call that failed and none that succeeded
DeeplFirst ==
    \A k \in 1..Len(tx_log) :
        tx_log[k].provider = "openai" =>
            /\ \E j \in 1..(k - 1) : tx_log[j].provider = "deepl" /\ ~tx_log[j].success
            /\ \A j \in 1..(k - 1) : ~(tx_log[j].provider = "deepl" /\ tx_log[j].success)

\* C28: every translation request (translate_text with engine auto;
\* translate_segments as called by translate_timed_segments) is sent to
\* DeepL first and to OpenAI only after DeepL failed; OpenAI is never called
\* when DeepL succeeded.
C28_DeeplBeforeOpenai ==
    ((tx_function = "translate_text" /\ tx_engine = "auto")
        \/ tx_function = "translate_segments") => DeeplFirst

\* the same for translate_text with engine auto alone
TranslateTextDeeplBeforeOpenai ==
    (tx_function = "translate_text" /\ tx_engine = "auto") => DeeplFirst

\* translate_segments calls OpenAI only
TranslateSegmentsOnlyOpenai ==
    tx_function = "translate_segments" =>
        \A k \in 1..Len(tx_log) : tx_log[k].provider = "openai"

\* translate_text with engine auto has fallen back to OpenAI
FellBackToOpenai ==
    /\ tx_function = "translate_text"
    /\ tx_engine = "auto"
    /\ tx_pc = "idle"
    /\ Len(tx_log) = 2
    /\ tx_result.engine = "openai (fallback)"

\* the permutations of a list
PermutationsOf(s) ==
    {[k \in 1..Len(s) |-> s[p[k]]] :
        p \in {q \in [1..Len(s) -> 1..Len(s)] : \A a, b \in 1..Len(s) : q[a] = q[b] => a = b}}

RECURSIVE LoopPieces(_, _, _)
\* the pieces the loop of lines 154-189 appends for a sorted list when every
\* silence and every stretch succeeds, followed by the cursor it ends with
LoopPieces(sorted, t, has_rb) ==
    IF sorted = <<>>
    THEN [pieces |-> <<>>, cursor |-> t]
    ELSE LET seg == Head(sorted)
             rest == LoopPieces(Tail(sorted), SegEnd(seg), has_rb)
         IN  [pieces |-> GapPiece(seg, t, TRUE)
                         \o ClipPiece(has_rb, seg, TRUE, FALSE, TRUE)
                         \o rest.pieces,
              cursor |-> rest.cursor]

\* the kind, length and segment of every piece, the trailing silence included
AssembledPieces(sorted, total, has_rb) ==
    LET loop == LoopPieces(sorted, 0, has_rb)
    IN  loop.pieces \o (IF loop.cursor < total
                        THEN <<[kind |-> "final", dur |-> total - loop.cursor]>>
                        ELSE <<>>)

\* the pieces are those of the list sorted by AsmEnter, whatever permutation
\* of it was passed
SamePiecesForPermutations ==
    \A p \in PermutationsOf(tts_segments) :
        AssembledPieces(SortByStart(p), total_duration, HAS_RUBBERBAND)
            = AssembledPieces(tts_segments', total_duration, HAS_RUBBERBAND)

DistinctStarts(s) ==
    \A a, b \in 1..Len(s) : s[a].start = s[b].start => a = b

\* C29: the sequence of pieces built by assemble_segments_with_timing is the
\* same for every permutation of the input list: the segments are processed
\* in ascending start order, so the order in which they arrive does not
\* matter.
C29_PermutationSamePieces ==
    [][(AsmEnter /\ tts_segments # <<>>) => SamePiecesForPermutations]_vars

\* the same when no two segments start at the same time
PermutationSamePiecesDistinctStarts ==
    [][(AsmEnter /\ tts_segments # <<>> /\ DistinctStarts(tts_segments))
          => SamePiecesForPermutations]_vars

\* what the loop appends when nothing fails is what AssembledPieces computes
LoopFollowsAssembledPieces ==
    (asm_pc = "concat" /\ ~silence_failed) =>
        Len(segment_files)
            = Len(AssembledPieces(tts_segments, total_duration, HAS_RUBBERBAND))

\* the last call of translate_segments failed for good: no credentials, or a
\* reply that is not retried
FailedNonRetryable ==
    /\ ~ts_ret.success
    /\ \/ ~has_api_key
       \/ ts_replies # <<>> /\ ts_replies[Len(ts_replies)] = "4xx"

\* C30: translate_timed_segments never sends again a batch whose failure was
\* non-retryable (missing credentials, or a 4xx reply other than 429): such a
\* failure ends the stage at once, without any sleep and without a further
\* request for that batch.
C30_NoResendAfterPermanentFailure ==
    ~(tt_pc = "retry" /\ FailedNonRetryable)

\* without credentials the stage ends after the batch was handed to
\* translate_segments a second time
MissingCredentialsEndsAfterResend ==
    (tt_pc = "done" /\ ~has_api_key /\ texts # <<>>) =>
        /\ Len(call_log) = 2
        /\ tt_result.error = "Batch failed after retry"

\* within one call of translate_segments nothing follows a 4xx reply
NoRequestAfterClientErrorInCall ==
    \A k \in 1..Len(ts_replies) : ts_replies[k] = "4xx" => k = Len(ts_replies)

\* C38: get_voice and get_voice_id return a voice for every language code
\* and every gender value, including a gender other than male/female
\* combined with a language absent from the voice table, and never raise.
C38_VoiceLookupTotal ==
    vl_pc = "done" => (~vl_result.raised /\ vl_result.voice # "none")

\* the same for the genders male and female
VoiceLookupTotalForKnownGender ==
    (vl_pc = "done" /\ vl_gender \in {"male", "female"}) =>
        (~vl_result.raised /\ vl_result.voice # "none")

\* the same for the languages whose base code is in the table
VoiceLookupTotalForKnownLanguage ==
    (vl_pc = "done" /\ BeforeDash(LowerStr(vl_language)) \in DOMAIN LANGUAGE_VOICES) =>
        (~vl_result.raised /\ vl_result.voice # "none")

\* both functions raise exactly for another gender with an absent language
VoiceLookupRaisesExactly ==
    vl_pc = "done" =>
        (vl_result.raised <=>
            /\ vl_gender \notin {"male", "female"}
            /\ BeforeDash(LowerStr(vl_language)) \notin DOMAIN LANGUAGE_VOICES)

\* number of segments of generate_timed_segments whose text is not blank
ElNonEmpty == Cardinality({k \in 1..Len(el_segments) : ~el_segments[k].blank})

\* C31: a synthesis stage run is never reported successful when fewer than
\* 80% of its non-empty segments produced an audio file, whichever provider
\* is used; here generate_timed_segments of the premium provider.
C31_SuccessNeedsFourFifths ==
    (el_pc = "done" /\ el_result.success) =>
        5 * Len(generated_segments) >= 4 * ElNonEmpty

\* generate_timed_segments reports success whenever its loop ends, however
\* many segments failed
PremiumSuccessWhateverFailed ==
    (el_pc = "done" /\ el_i = Len(el_segments)) =>
        /\ el_result.success
        /\ el_result.total_segments + el_result.failed_segments = ElNonEmpty

\* the same bound for generate_segments_audio of the free provider
FreeProviderSuccessNeedsFourFifths ==
    (syn_pc = "done" /\ syn_result.counted /\ syn_result.success) =>
        5 * successful >= 4 * CountNonEmpty(syn_segments)

\* the silence between segment k - 1 and segment k of the engine (the
\* silence from time 0 for the first)
SilenceBefore(k) ==
    segments_iter[k].start - (IF k = 1 THEN 0 ELSE segments_iter[k - 1].end)

\* speaker_id is 0 or 1, ids count from 0, and a later segment changes
\* speaker exactly when more than 2 s of silence precede it
SpeakerTogglesOnLongSilence ==
    \A k \in 1..Len(fw_segments) :
        /\ fw_segments[k].id = k - 1
        /\ fw_segments[k].speaker_id \in {0, 1}
        /\ k > 1 => ((fw_segments[k].speaker_id # fw_segments[k - 1].speaker_id)
                        <=> SilenceBefore(k) > SPEAKER_GAP)

\* C32: the first segment has speaker_id 0, and each later segment's
\* speaker_id differs from its predecessor's exactly when the silence
\* between the two exceeds 2 s; speaker_id is always 0 or 1 and segment ids
\* are 0, 1, 2, ... in order.
C32_FirstSpeakerZeroThenToggle ==
    /\ fw_segments # <<>> => fw_segments[1].speaker_id = 0
    /\ SpeakerTogglesOnLongSilence

\* the first segment has speaker_id 0 exactly when it starts within 2 s
FirstSpeakerZeroIffEarlyStart ==
    fw_segments # <<>> =>
        (fw_segments[1].speaker_id = 0 <=> segments_iter[1].start <= SPEAKER_GAP)

\* the toggle read on the rounded times of the output instead
TogglesOnRoundedSilence ==
    \A k \in 2..Len(fw_segments) :
        (fw_segments[k].speaker_id # fw_segments[k - 1].speaker_id)
            <=> fw_segments[k].start - fw_segments[k - 1].end > SPEAKER_GAP

RECURSIVE AllSegmentWords(_)
\* the words of a list of segments, concatenated in order
AllSegmentWords(segs) ==
    IF segs = <<>> THEN <<>> ELSE Head(segs).words \o AllSegmentWords(Tail(segs))

RECURSIVE WordsBefore(_, _)
\* number of words in the first k segments
WordsBefore(segs, k) ==
    IF k = 0 THEN 0 ELSE WordsBefore(segs, k - 1) + Len(segs[k].words)

C33_WitnessSilence ==
    /\ oa_pc = "done"
    /\ oa_result.success
    /\ Len(oa_segments) = 3
    /\ Len(oa_segments[2].words) = 1

\* segments on which pitch analysis was run
PitchAnalysed ==
    {k \in 1..Len(sd_log) : sd_log[k] \in {"no pitch", "pitch"}}

\* segment k carries the gender of the nearest analysed segment, with 0.8
\* times its confidence
HasNearestGender(k) ==
    /\ DOMAIN sampled_results # {}
    /\ LET nearest_result == sampled_results[NearestIndex(DOMAIN sampled_results, k - 1)]
           seg == sd_result.segments[k]
       IN  /\ seg.detected_gender = nearest_result.gender
           /\ 5 * seg.gender_confidence.num * nearest_result.confidence.den
                = 4 * nearest_result.confidence.num * seg.gender_confidence.den

\* C34: when the number of segments exceeds max_samples, analyze_segments
\* runs pitch analysis on at most max_samples segments, and every
\* non-analysed segment of at least 0.3 s receives the gender of the
\* nearest analysed segment with that segment's confidence multiplied by 0.8.
C34_SampleAndPropagate ==
    (sd_pc = "done" /\ sd_result.success /\ Len(sd_segments) > max_samples) =>
        /\ Cardinality(PitchAnalysed) <= max_samples
        /\ \A k \in 1..Len(sd_segments) :
             (k \notin PitchAnalysed /\ sd_segments[k] >= 300) => HasNearestGender(k)

\* the sample is every (n div max_samples)-th segment, which can be more
\* than max_samples segments
SampleIsEveryStepth ==
    (sd_pc = "done" /\ sd_result.success /\ Len(sd_segments) > max_samples) =>
        \A k \in PitchAnalysed : (k - 1) % (Len(sd_segments) \div max_samples) = 0

\* a segment left out of the sample receives the nearest analysed gender
\* whenever some segment was analysed
PendingGetsNearestGender ==
    (sd_pc = "done" /\ sd_result.success /\ PitchAnalysed # {}) =>
        \A k \in 1..Len(sd_log) : sd_log[k] = "not sampled" => HasNearestGender(k)

\* three segments analysed with max_samples = 2
MoreAnalysedThanMaxSamples ==
    /\ sd_pc = "done"
    /\ max_samples = 2
    /\ Len(sd_segments) = 3
    /\ Cardinality(PitchAnalysed) = 3

\* the texts of the calls of call_log that succeeded, concatenated in call order
RECURSIVE SentTexts(_)
SentTexts(log) ==
    IF log = <<>> THEN <<>>
    ELSE LET e == log[Len(log)]
         IN SentTexts(SubSeq(log, 1, Len(log) - 1))
              \o (IF e.ok THEN BatchTexts(texts, e.batch) ELSE <<>>)

\* position k of tt_events holds the first request made for its batch
FirstRequestOfBatch(k) ==
    /\ tt_events[k].kind = "request"
    /\ \A j \in 1..(k - 1) :
         ~(tt_events[j].kind = "request" /\ tt_events[j].batch = tt_events[k].batch)

\* position k of tt_events holds a wait between batches
IsBatchWait(k) == tt_events[k].kind = "sleep" /\ tt_events[k].ms = BATCH_WAIT

\* C35: translate_timed_segments sends the non-empty texts in order, in
\* consecutive batches of at most 20, each text in exactly one translated
\* batch; it sleeps 1.5 s after a translated batch and before the first
\* request of the next one, and never after the last batch
C35_BatchesAndWaits ==
    /\ \A k \in 1..Len(call_log) :
         /\ Len(BatchTexts(texts, call_log[k].batch)) \in 1..BATCH_SIZE
         /\ call_log[k].ok =>
              SentTexts(SubSeq(call_log, 1, k - 1))
                = SubSeq(texts, 1, call_log[k].batch)
    /\ SentTexts(call_log) = SubSeq(texts, 1, Len(SentTexts(call_log)))
    /\ (tt_pc = "done" /\ tt_result.success) => SentTexts(call_log) = texts
    /\ \A k \in 1..Len(tt_events) :
         /\ (FirstRequestOfBatch(k) /\ tt_events[k].batch > 0) =>
              /\ k > 1
              /\ tt_events[k - 1] = Sleep(tt_events[k].batch - BATCH_SIZE, BATCH_WAIT)
         /\ IsBatchWait(k) =>
              /\ k > 1
              /\ tt_events[k - 1] = Request(tt_events[k].batch)
              /\ tt_events[k].batch + BATCH_SIZE < Len(texts)
              /\ \A j \in 1..Len(tt_events) :
                   (IsBatchWait(j) /\ tt_events[j].batch = tt_events[k].batch) => j = k
    /\ (tt_pc = "done" /\ tt_events # <<>>) => ~IsBatchWait(Len(tt_events))

\* reachable: three batches were translated, two waits of 1.5 s were made and
\* one batch had to be sent again after the 10 s wait
C35_Witness ==
    /\ tt_pc = "done"
    /\ tt_result.success
    /\ Len(texts) > 2 * BATCH_SIZE
    /\ Cardinality({k \in 1..Len(tt_events) : IsBatchWait(k)}) = 2
    /\ \E k \in 1..Len(tt_events) : tt_events[k] = Sleep(BATCH_SIZE, RETRY_WAIT)

\* C36: every exit path of assemble_segments_with_timing leaves behind neither
\* its temporary directory nor any temporary file it created
C36_NoTemporariesLeft ==
    asm_pc = "done" => temp_dir = NoTempDir

\* reachable: the call returned "No segments provided" with its directory left
TempDirLeftOnEmptyList ==
    /\ asm_pc = "done"
    /\ tts_segments = <<>>
    /\ temp_dir = <<<<>>>>

\* reachable: the concatenation failed and the silences, adjusted clips and
\* concat.txt are left in the directory
TempFilesLeftOnConcatFailure ==
    /\ asm_pc = "done"
    /\ asm_result.error = "Concatenation failed"
    /\ temp_dir # NoTempDir
    /\ \E k \in 1..Len(temp_dir[1]) : temp_dir[1][k].name = "adjusted"
    /\ \E k \in 1..Len(temp_dir[1]) : temp_dir[1][k].name = "silence"
    /\ \E k \in 1..Len(temp_dir[1]) : temp_dir[1][k] = CONCAT_LIST

\* what the code does (SpecAsm): the directory and every file listed in
\* segment_files are removed when the call succeeds; on each failing return
\* the directory is left with what was created in it
TemporariesRemovedOnlyOnSuccess ==
    /\ (asm_pc = "done" /\ asm_result.success) => temp_dir = NoTempDir
    /\ (asm_pc = "done" /\ ~asm_result.success)
          => /\ temp_dir # NoTempDir
             /\ Len(temp_dir[1]) >= Len(TempFiles(segment_files))
    /\ asm_pc \in {"loop", "tail", "concat"} => temp_dir = <<TempFiles(segment_files)>>

\* number of entries of the segments list that are successful with quality q
CountResults(q) ==
    Cardinality({k \in 1..Len(results) : results[k].success /\ results[k].sync_quality = q})

\* C37: in every result of generate_segments_audio that carries counts,
\* successful + failed = total_segments, the segments list holds one result
\* per input segment in input order, and the good, fair and poor counts of
\* sync_stats add up to successful
C37_CountsAddUp ==
    (syn_pc = "done" /\ syn_result.counted) =>
        /\ successful + failed = Len(syn_segments)
        /\ Len(results) = Len(syn_segments)
        /\ \A k \in 1..Len(results) :
             /\ results[k].success => syn_segments[k].text # ""
             /\ syn_segments[k].text = "" <=> results[k].error = "Empty segment text"
        /\ successful = Cardinality({k \in 1..Len(results) : results[k].success})
        /\ sync_stats.good + sync_stats.fair + sync_stats.poor = successful
        /\ \A q \in {"good", "fair", "poor"} : sync_stats[q] = CountResults(q)

\* reachable: a counted result with a blank segment, at least two failures and
\* at least two successes, one of them good and one fair
C37_Witness ==
    /\ syn_pc = "done"
    /\ syn_result.counted
    /\ failed >= 2
    /\ successful >= 2
    /\ sync_stats.fair >= 1
    /\ sync_stats.good >= 1
    /\ \E k \in 1..Len(syn_segments) : syn_segments[k].text = ""

\* ---- generate_audio and translate_timed_segments as calls that must return ----
\* Either a process making generate_audio calls or one translate_timed_segments
\* call.
InitReq == InitTr \/ InitGa

NextReq == NextTrStage \/ NextGaStage

SpecReq == InitReq /\ [][NextReq]_vars

\* the provider requests a finished generate_audio call made
GaRequests(h) == h.edge_reqs + (IF h.gtts_called THEN 1 ELSE 0)

RequestsBounded ==
    /\ ga_edge_reqs <= GA_MAX_RETRIES
    /\ \A k \in 1..Len(ga_history) :
         /\ ga_history[k].edge_reqs <= GA_MAX_RETRIES
         /\ GaRequests(ga_history[k]) <= GA_MAX_RETRIES + 1
    /\ Len(ts_replies) <= TS_MAX_RETRIES
    /\ batch_requests <= 2 * TS_MAX_RETRIES

\* steps a running generate_audio call can still take
GaStepsLeft ==
    IF ga_pc = "edge" THEN (GA_MAX_RETRIES - ga_edge_reqs) + 1
    ELSE IF ga_pc = "gtts" THEN 1
    ELSE 0

\* steps the running translate_segments call, and the resend that may follow
\* it, can still take for the current batch
BatchStepsLeft ==
    LET resend == TS_MAX_RETRIES + 2
    IN IF tt_pc = "batch" THEN TS_MAX_RETRIES + 2 + resend + 1
       ELSE IF tt_pc = "retry" THEN resend
       ELSE IF tt_pc = "req"
            THEN (TS_MAX_RETRIES - ts_attempt) + 1 + (IF in_retry THEN 0 ELSE resend + 1)
       ELSE IF tt_pc = "ret" THEN 1 + (IF in_retry THEN 0 ELSE resend)
       ELSE 0

\* steps a running translate_timed_segments call can still take
TtStepsLeft ==
    LET per_batch == 2 * (TS_MAX_RETRIES + 2) + 2
    IN IF tt_pc = "call"
       THEN per_batch * ((Len(tt_segments) \div BATCH_SIZE) + 1) + 1
       ELSE IF tt_pc \in {"batch", "retry", "req", "ret"}
       THEN per_batch * (((Len(texts) - 1) \div BATCH_SIZE) - (batch_start \div BATCH_SIZE))
              + BatchStepsLeft
       ELSE 0

CallRunning == ga_pc \in {"edge", "gtts"} \/ tt_pc \in {"call", "batch", "retry", "req", "ret"}

\* C39: every call of generate_audio and of translate_timed_segments returns
\* after a bounded number of provider requests: at most max_retries primary
\* attempts plus one fallback attempt per generate_audio call and at most
\* 2 * max_retries requests per translation batch; every step of a running
\* call lowers a non-negative count of the steps left, so a call whose
\* requests all return reaches its return
C39_BoundedRequests ==
    [][/\ RequestsBounded'
       /\ GaStepsLeft' >= 0
       /\ TtStepsLeft' >= 0
       /\ CallRunning => GaStepsLeft' + TtStepsLeft' < GaStepsLeft + TtStepsLeft
       /\ (GaStepsLeft' + TtStepsLeft' = 0) <=> ~CallRunning']_vars

\* reachable: a batch was sent twice with max_retries requests each time and
\* the call returned
C39_Witness ==
    /\ tt_pc = "done"
    /\ batch_requests = 2 * TS_MAX_RETRIES
    /\ Len(call_log) >= 2

\* reachable: a generate_audio call made max_retries primary requests and the
\* fallback request
GaCallAtTheBound ==
    /\ ga_pc = "idle"
    /\ \E k \in 1..Len(ga_history) : GaRequests(ga_history[k]) = GA_MAX_RETRIES + 1

Init == InitAsm \/ InitTr \/ InitVa \/ InitGa \/ InitSyn \/ InitPp \/ InitAsmCmd \/ InitWt \/ InitSd
          \/ InitMain
          \/ InitSt
          \/ InitMx
          \/ InitHo
          \/ InitTx
          \/ InitVl
          \/ InitEl
          \/ InitFw
          \/ InitOa

Next ==
    \/ NextAsm
    \/ NextTrStage
    \/ NextVaStage
    \/ NextGaStage
    \/ NextSynStage
    \/ NextPpStage
    \/ NextAsmCmdStage
    \/ NextWtStage
    \/ NextSdStage
    \/ NextMainStage
    \/ NextStStage
    \/ NextMxStage
    \/ NextHoStage
    \/ NextTxStage
    \/ NextVlStage
    \/ NextElStage
    \/ NextFwStage
    \/ NextOaStage

Spec == Init /\ [][Next]_vars
=============================================================================
